---- MODULE Spec2Model ----
(***************************************************************************)
(* Model of the RTT terminal (src/rtt_terminal.py): the framing of         *)
(* commands, the Line Assembler thread (_rtt_reader), the synchronous      *)
(* query()/at_query()/batch_at_query() helpers, the stdin mirror thread    *)
(* and stop().                                                             *)
(*                                                                         *)
(* The byte stream of the up channel is modelled over a small alphabet of  *)
(* byte runs (Bytes): "\n" is the newline byte, "\r" and " " are           *)
(* whitespace, "0xFF" is a byte sequence that is not valid UTF-8, and      *)
(* "5046", "OK", "ERROR" are runs of printable ASCII bytes.  A decoded     *)
(* line is a sequence of characters (the same runs, "0xFF" replaced by     *)
(* the replacement character "U+FFFD").                                    *)
(***************************************************************************)
EXTENDS Integers, Sequences, FiniteSets, TLC

\* ------------------------------------------------------------------ bounds
\* lines the device emits in one run
MaxLines == 2
\* commands written to the down channel in one run (queries and stdin lines)
MaxSends == 2
\* stop() calls in one run
MaxStops == 2
\* lines typed on the console in one run
MaxStdin == 1
\* channel writes that fail in one run
MaxFails == 1
\* start() calls in one run
MaxStarts == 2
\* entries of the report handed to parse()
MaxReport == 1
\* rules of one rule list handed to _apply_rules()
MaxRules == 2
\* export_csv() calls
MaxExports == 2

\* ------------------------------------------------------- program constants
AT_TERMINATORS == {<<"OK">>, <<"ERROR">>}
EOM == <<"\r", "\n", ".", "\r", "\n">>
CHUNK == 1024

\* command identifiers a caller may use
Cmds == {"AT", "AT%X"}
\* line bodies the device may emit (before the newline) in answer to a command
DevTexts == {<<"5046", "\r">>, <<"OK", "\r">>, <<"ERROR">>}
\* the status lines among them
StatusTexts == {<<"OK", "\r">>, <<"ERROR">>}
\* line bodies of a device whose output is not clean text
RawTexts == {<<"5046", "\r">>, <<"OK">>, <<"0xFF", "5046">>, <<>>}
\* timeouts a caller passes, in clock ticks: no wait, or a wait of one tick
Timeouts == {0, 1}
Whitespace == {" ", "\r", "\n"}
None == "None"
\* the status of an envelope whose exchange saw no status line (None)
NoStatus == <<>>
\* the predicates a caller passes as until: no predicate, or the AT one
Untils == {"none", "at"}

VARIABLES
    \* --- RttTerminal fields
    own_session,     \* self._own_session
    attach_console,  \* self._attach_console
    session,         \* self._session: None or "S"
    stop_evt,        \* self._stop_evt
    threads,         \* self._threads, a sequence of thread names
    down,            \* self._down: None or "D"
    up,              \* self._up: None or "U"
    rx_q,            \* self._rx_q: FIFO of [id, text]
    \* --- the pyOCD session and the RTT channels
    sess_state,      \* "new", "open" or "closed"
    upchan,          \* bytes the device has written and nobody has read
    downlog,         \* commands written on the down channel: [by, cmd]
    \* --- the device
    dev_cur,         \* index in downlog of the command being answered
    dev_done,        \* the answer to dev_cur has ended with a status line
    dev_pend,        \* rest of the line the device is writing
    dev_owner,       \* per emitted line: the command it answers
    \* --- _rtt_reader thread
    rpc, buf, rtext,
    \* --- _stdin_writer thread
    wpc, wline, typed,
    \* --- the calling thread
    mpc,             \* where the thread is
    mode,            \* the outermost call in progress: query, at, batch
    q_line, q_timeout, q_until,   \* query()'s arguments
    deadline, replies,            \* query()'s locals
    q_sent,          \* index in downlog of this query's command
    commands, bi, result, has_progress,   \* batch_at_query()
    last_env,        \* the envelope at_query() returned last
    last_ret,        \* how the last call ended
    \* --- a thread calling stop()
    spc, ji,
    stops,           \* returned stop() calls: was the terminal started

    \* --- clock
    now,
    \* --- history
    rx_bytes,        \* every byte _rtt_reader has read
    putLog,          \* every line put on rx_q
    obsLog,          \* every line passed to on_line
    qlog,            \* every returned query: [sent, until, lines]
    stale,           \* ids of lines found in rx_q when a query was invoked
    events,          \* progress / send / done / dwell events of the batch
    closes,          \* calls of session.close()
    joins,           \* join() calls, per thread name
    callFlag,        \* the stop flag was set when the query() that has not yet
                     \* sent its command was invoked
    idlePut,         \* ids of the lines in rx_q that were put while no query()
                     \* was in progress
    \* --- send(): the chunk loop of each sending thread, and the down channel
    s_cmd, s_i, s_sent, s_op,   \* per thread: line, the locals i and sent, call number
    ops,             \* send() calls that reached the chunk loop
    wlog,            \* every write() call on the down channel
    sendlog,         \* every returned send(): [op, by, cmd, ret]
    raised,          \* every write error: [op, by, mode] with the outermost call
    echoed,          \* writes a loop-back device has copied to the up channel
    \* --- start() called again
    xr,              \* the reader threads of later start() calls: [pc, buf, text]
    \* --- at_parser.py
    PARSER_REGISTRY, \* command -> parser
    NAME_REGISTRY,   \* command -> display name
    reg_ret,         \* how the last register_parser() call ended
    reg_log,         \* the last register_parser() call: its arguments, the registries before it
    results,         \* the list the last parse() call returned
    pcall,           \* the parse() call made: its arguments and how it ended
    ar,              \* the _apply_rules() call made: its arguments and what it returned
    files,           \* path -> the rows of the file
    exports          \* every export_csv() call: [path, results, mode]

termVars == <<own_session, attach_console, session, stop_evt, threads, down, up, rx_q>>
extVars == <<sess_state, upchan, downlog>>
devVars == <<dev_cur, dev_done, dev_pend, dev_owner>>
readerVars == <<rpc, buf, rtext>>
writerVars == <<wpc, wline, typed>>
queryVars == <<mode, q_line, q_timeout, q_until, deadline, replies, q_sent>>
batchVars == <<commands, bi, result, has_progress>>
mainVars == <<mpc, queryVars, batchVars, last_env, last_ret>>
stopVars == <<spc, ji, stops>>
histVars == <<rx_bytes, putLog, obsLog, qlog, stale, events, closes, joins>>
ghostVars == <<callFlag, idlePut>>
sendVars == <<s_cmd, s_i, s_sent, s_op, ops, wlog, sendlog, raised, echoed>>
startVars == <<xr>>
parserVars == <<PARSER_REGISTRY, NAME_REGISTRY, reg_ret, reg_log, results, pcall, ar, files,
                exports>>
\* the variables of the parts most actions leave alone
restVars == <<ghostVars, sendVars, startVars, parserVars>>
vars == <<termVars, extVars, devVars, readerVars, writerVars, mainVars, stopVars, now, histVars,
          restVars>>

\* ----------------------------------------------------------------- helpers
Last(s) == s[Len(s)]
Front(s) == SubSeq(s, 1, Len(s) - 1)

\* a decoder that takes every byte for a character of its own
Decode_Bytewise(bs) == [i \in 1..Len(bs) |-> IF bs[i] = "0xFF" THEN "U+FFFD" ELSE bs[i]]

\* bytes.decode(errors="replace"): an invalid byte becomes U+FFFD.  The
\* bytes 0xC3 0xA9 are the UTF-8 encoding of U+00E9; each of them alone is
\* invalid.
DecodeByte(b) == IF b \in {"0xFF", "0xC3", "0xA9"} THEN "U+FFFD" ELSE b
RECURSIVE DecodeMulti(_)
DecodeMulti(bs) ==
    IF bs = <<>> THEN <<>>
    ELSE IF Len(bs) >= 2 /\ bs[1] = "0xC3" /\ bs[2] = "0xA9"
    THEN <<"U+00E9">> \o DecodeMulti(SubSeq(bs, 3, Len(bs)))
    ELSE <<DecodeByte(bs[1])>> \o DecodeMulti(Tail(bs))
Decode(bs) ==
    IF \A i \in 1..Len(bs) : bs[i] # "0xC3"
    THEN [i \in 1..Len(bs) |-> DecodeByte(bs[i])]
    ELSE DecodeMulti(bs)

\* str.encode(): UTF-8; U+00E9 takes two bytes, an ASCII character one
EncodeChar(ch) == IF ch = "U+00E9" THEN <<"0xC3", "0xA9">> ELSE <<ch>>
RECURSIVE EncodeMulti(_)
EncodeMulti(t) ==
    IF t = <<>> THEN <<>> ELSE EncodeChar(Head(t)) \o EncodeMulti(Tail(t))
Encode(t) ==
    IF \A i \in 1..Len(t) : t[i] # "U+00E9" THEN t ELSE EncodeMulti(t)

\* index of the first newline of bs at or after i, 0 if there is none
FindNewline(bs, i) ==
    IF \E j \in i..Len(bs) : bs[j] = "\n"
    THEN CHOOSE j \in i..Len(bs) : bs[j] = "\n" /\ \A k \in i..(j - 1) : bs[k] # "\n"
    ELSE 0

HasNewline(bs) == FindNewline(bs, 1) # 0
\* a rest that loses the byte after the newline
PartitionRest_SkipOne(bs) == SubSeq(bs, FindNewline(bs, 1) + 2, Len(bs))
\* bytearray.partition(b"\n"): the part before the first newline, and the rest
PartitionLine(bs) == SubSeq(bs, 1, FindNewline(bs, 1) - 1)
PartitionRest(bs) == SubSeq(bs, FindNewline(bs, 1) + 1, Len(bs))

\* str.strip(): leading and trailing whitespace removed
RECURSIVE LStrip(_)
LStrip(t) ==
    IF t # <<>> /\ Head(t) \in Whitespace THEN LStrip(Tail(t)) ELSE t
RECURSIVE RStrip(_)
RStrip(t) ==
    IF t # <<>> /\ Last(t) \in Whitespace THEN RStrip(Front(t)) ELSE t
Strip(t) == RStrip(LStrip(t))

\* the terminator predicate at_query() passes to query()
AtUntil(t) == Strip(t) \in AT_TERMINATORS
\* a terminator predicate that knows "OK" only
UntilHolds_OkOnly(u, t) == u = "at" /\ Strip(t) = <<"OK">>
\* `until and until(line_rx)` for the predicates the model passes
UntilHolds(u, t) == u = "at" /\ AtUntil(t)

\* "\n".join(lines)
RECURSIVE Join(_)
Join(ls) ==
    IF ls = <<>> THEN <<>>
    ELSE IF Len(ls) = 1 THEN ls[1]
    ELSE ls[1] \o <<"\n">> \o Join(Tail(ls))

Texts(ls) == [i \in 1..Len(ls) |-> ls[i].text]
Ids(ls) == {ls[i].id : i \in 1..Len(ls)}

\* send(): the payload followed by the sentinel
Frame(line) == <<line>> \o EOM

\* the loop of at_query() appending every line, the status line too, to the payload
RECURSIVE AtLoop_KeepStatus(_, _, _)
AtLoop_KeepStatus(lines, status, payload) ==
    IF lines = <<>> THEN [reply |-> Join(payload), status |-> status]
    ELSE LET ls == Strip(Head(lines)) IN
         IF ls \in AT_TERMINATORS /\ status = NoStatus
         THEN AtLoop_KeepStatus(Tail(lines), ls, Append(payload, ls))
         ELSE AtLoop_KeepStatus(Tail(lines), status, Append(payload, ls))

\* at_query() lines 151-160: the loop over the collected lines
RECURSIVE AtLoop(_, _, _)
AtLoop(lines, status, payload) ==
    IF lines = <<>> THEN [reply |-> Join(payload), status |-> status]
    ELSE LET ls == Strip(Head(lines)) IN
         IF ls \in AT_TERMINATORS /\ status = NoStatus
         THEN AtLoop(Tail(lines), ls, payload)
         ELSE AtLoop(Tail(lines), status, Append(payload, ls))
AtPartition(lines) == AtLoop(lines, NoStatus, <<>>)

EmptyEnv == [reply |-> <<>>, status |-> NoStatus]
EmptyResult == [c \in {} |-> EmptyEnv]
\* result[cmd] = env
SetItem(d, k, v) == [c \in DOMAIN d \cup {k} |-> IF c = k THEN v ELSE d[c]]

\* a batch that keeps only the envelopes of the commands that ended in OK
BatchStore_OkOnly(d, cmd, env) == IF env.status = <<"OK">> THEN SetItem(d, cmd, env) ELSE d
\* a batch that keeps the envelope of the first occurrence of a command
BatchStore_KeepFirst(d, cmd, env) == IF cmd \in DOMAIN d THEN d ELSE SetItem(d, cmd, env)
\* batch_at_query() line 175: result[cmd] = self.at_query(cmd, ...)
BatchStore(d, cmd, env) == SetItem(d, cmd, env)

\* sequences over S of length lo..hi
SeqsOf(S, lo, hi) == UNION {[1..n -> S] : n \in lo..hi}

\* the threads that call send(): the caller of the terminal, the stdin mirror
Senders == {"main", "stdin"}
\* the reader threads later start() calls create; threading.Thread gives each
\* the name "rtt-reader", the suffix tells the thread objects apart
ExtraReaders == <<"rtt-reader-2", "rtt-reader-3", "rtt-reader-4">>
ReaderIndex(t) == CHOOSE k \in 1..Len(ExtraReaders) : ExtraReaders[k] = t
ThreadNames == {"rtt-reader", "stdin-writer"} \cup {ExtraReaders[k] : k \in 1..Len(ExtraReaders)}

\* at_parser.py lines 261-273: the registry after the module is imported
BuiltinParsers ==
    [c \in {"AT+CFUN=1", "AT+CFUN=0", "AT+CEREG?", "AT+CGMI", "AT+CGMR", "AT+CGMM",
            "AT+CGSN", "AT+CIMI", "AT%XICCID", "AT%XMONITOR", "AT%XVBAT", "AT%XTEMP?",
            "AT%XSYSTEMMODE?"} |->
        CASE c \in {"AT+CFUN=1", "AT+CFUN=0"} -> "_pass_if_ok"
          [] c = "AT+CEREG?" -> "_parse_cereg"
          [] c \in {"AT+CGMI", "AT+CGMR", "AT+CGMM", "AT+CGSN", "AT+CIMI"} -> "_verbatim"
          [] c = "AT%XICCID" -> "_verbatim_strip_prefix"
          [] c = "AT%XMONITOR" -> "_parse_xmonitor"
          [] c = "AT%XVBAT" -> "_parse_xvbat"
          [] c = "AT%XTEMP?" -> "_parse_xtemp"
          [] c = "AT%XSYSTEMMODE?" -> "_parse_xsystemmode"]
BuiltinNames ==
    [c \in DOMAIN BuiltinParsers |->
        CASE c \in {"AT+CFUN=1", "AT+CFUN=0"} -> "Modem functional"
          [] c = "AT+CEREG?" -> "Network registration"
          [] c = "AT+CGMI" -> "Manufacturer"
          [] c = "AT+CGMR" -> "Firmware version"
          [] c = "AT+CGMM" -> "Model"
          [] c = "AT+CGSN" -> "IMEI"
          [] c = "AT+CIMI" -> "IMSI"
          [] c = "AT%XICCID" -> "ICCID"
          [] c = "AT%XMONITOR" -> "Network monitor"
          [] c = "AT%XVBAT" -> "System Voltage"
          [] c = "AT%XTEMP?" -> "Modem temperature"
          [] c = "AT%XSYSTEMMODE?" -> "System mode"]

\* -------------------------------------------------------------------- Init
Init ==
    /\ own_session \in BOOLEAN
    /\ attach_console \in BOOLEAN
    /\ session = IF own_session THEN None ELSE "S"
    /\ sess_state = IF own_session THEN "new" ELSE "open"
    /\ stop_evt = FALSE
    /\ threads = <<>>
    /\ down = None /\ up = None
    /\ rx_q = <<>>
    /\ upchan = <<>> /\ downlog = <<>>
    /\ dev_cur = 0 /\ dev_done = TRUE /\ dev_pend = <<>> /\ dev_owner = <<>>
    /\ rpc = "off" /\ buf = <<>> /\ rtext = <<>>
    /\ wpc = "off" /\ wline = "" /\ typed = 0
    /\ mpc = "idle" /\ mode = "none"
    /\ q_line = "" /\ q_timeout = 0 /\ q_until = "none"
    /\ deadline = 0 /\ replies = <<>> /\ q_sent = 0
    /\ commands = <<>> /\ bi = 0 /\ result = EmptyResult /\ has_progress = FALSE
    /\ last_env = EmptyEnv /\ last_ret = "none"
    /\ spc = "idle" /\ ji = 0 /\ stops = <<>>
    /\ now = 0
    /\ rx_bytes = <<>> /\ putLog = <<>> /\ obsLog = <<>> /\ qlog = <<>>
    /\ stale = {} /\ events = <<>> /\ closes = 0
    /\ joins = [t \in ThreadNames |-> 0]
    /\ callFlag = FALSE /\ idlePut = {}
    /\ s_cmd = [t \in Senders |-> ""] /\ s_i = [t \in Senders |-> 0]
    /\ s_sent = [t \in Senders |-> 0] /\ s_op = [t \in Senders |-> 0]
    /\ ops = 0 /\ wlog = <<>> /\ sendlog = <<>> /\ raised = <<>> /\ echoed = 0
    /\ xr = <<>>
    /\ PARSER_REGISTRY = BuiltinParsers /\ NAME_REGISTRY = BuiltinNames
    /\ reg_ret = "none" /\ reg_log = <<>> /\ results = <<>>
    /\ pcall = <<>> /\ ar = <<>>
    /\ files = [p \in {} |-> <<>>] /\ exports = <<>>

\* a query() call is in progress on the calling thread
QueryPending == mpc \in {"q_drain", "q_send", "s_loop", "q_loop", "q_get", "q_ret"}

\* ------------------------------------------------------------------ device
\* the command the device answers next
DevTarget == IF dev_done THEN dev_cur + 1 ELSE dev_cur

\* The device starts a line of its answer and writes its first k bytes.
DevLine(text, k) ==
    /\ dev_pend = <<>>
    /\ Len(dev_owner) < MaxLines
    /\ DevTarget \in 1..Len(downlog)
    /\ k \in 1..(Len(text) + 1)
    /\ upchan' = upchan \o SubSeq(text \o <<"\n">>, 1, k)
    /\ dev_pend' = SubSeq(text \o <<"\n">>, k + 1, Len(text) + 1)
    /\ dev_cur' = DevTarget
    /\ dev_done' = AtUntil(Decode(text))
    /\ dev_owner' = Append(dev_owner, DevTarget)
    /\ UNCHANGED <<restVars, termVars, sess_state, downlog, readerVars, writerVars,
                   mainVars, stopVars, now, histVars>>

\* The device writes the rest of the line.
DevFlush ==
    /\ dev_pend # <<>>
    /\ upchan' = upchan \o dev_pend
    /\ dev_pend' = <<>>
    /\ UNCHANGED <<restVars, termVars, sess_state, downlog, dev_cur, dev_done, dev_owner,
                   readerVars, writerVars, mainVars, stopVars, now, histVars>>

\* ------------------------------------------------------------ _rtt_reader
\* a reader whose loop does not test the stop flag
RCheck_NoStop ==
    /\ rpc = "check"
    /\ rpc' = "read"
    /\ UNCHANGED <<restVars, termVars, extVars, devVars, buf, rtext, writerVars,
                   mainVars, stopVars, now, histVars>>

\* line 282: while not self._stop_evt.is_set()
RCheck ==
    /\ rpc = "check"
    /\ rpc' = IF stop_evt THEN "done" ELSE "read"
    /\ UNCHANGED <<restVars, termVars, extVars, devVars, buf, rtext, writerVars,
                   mainVars, stopVars, now, histVars>>

\* lines 283-285, 292-293: the nonblocking read; sleep when nothing came
RRead ==
    /\ rpc = "read"
    /\ LET data == IF up # None THEN upchan ELSE <<>> IN
        IF data # <<>>
        THEN /\ buf' = buf \o data
             /\ upchan' = <<>>
             /\ rx_bytes' = rx_bytes \o data
             /\ rpc' = "split"
        ELSE /\ rpc' = "check"
             /\ UNCHANGED <<buf, upchan, rx_bytes>>
    /\ UNCHANGED <<restVars, termVars, sess_state, downlog, devVars, rtext, writerVars,
                   mainVars, stopVars, now, putLog, obsLog, qlog, stale, events,
                   closes, joins>>

\* lines 286-289: while b"\n" in buf: partition, decode, put
RSplit ==
    /\ rpc = "split"
    /\ IF HasNewline(buf)
       THEN LET text == Decode(PartitionLine(buf))
                item == [id |-> Len(putLog) + 1, text |-> text] IN
            /\ rx_q' = Append(rx_q, item)
            /\ putLog' = Append(putLog, item)
            /\ rtext' = text
            /\ idlePut' = IF QueryPending THEN idlePut ELSE idlePut \cup {item.id}
            /\ rpc' = "obs"
       ELSE /\ rpc' = "check"
            /\ UNCHANGED <<rx_q, putLog, rtext, idlePut>>
    /\ UNCHANGED <<callFlag, sendVars, startVars, parserVars, own_session, attach_console, session, stop_evt, threads, down, up,
                   extVars, devVars, buf, writerVars, mainVars, stopVars, now,
                   rx_bytes, obsLog, qlog, stale, events, closes, joins>>

\* the reader emptying the buffer after a line instead of keeping the rest
RObs_DropRest ==
    /\ rpc = "obs"
    /\ obsLog' = Append(obsLog, rtext)
    /\ buf' = <<>>
    /\ rpc' = "split"
    /\ UNCHANGED <<restVars, termVars, extVars, devVars, rtext, writerVars, mainVars,
                   stopVars, now, rx_bytes, putLog, qlog, stale, events, closes, joins>>

\* lines 290-291: the observer call, then buf = rest
RObs ==
    /\ rpc = "obs"
    /\ obsLog' = Append(obsLog, rtext)
    /\ buf' = PartitionRest(buf)
    /\ rpc' = "split"
    /\ UNCHANGED <<restVars, termVars, extVars, devVars, rtext, writerVars, mainVars,
                   stopVars, now, rx_bytes, putLog, qlog, stale, events, closes, joins>>

_rtt_reader == RCheck \/ RRead \/ RSplit \/ RObs

\* ---------------------------------------------------------- _stdin_writer
\* line 265: while not self._stop_evt.is_set()
WCheck ==
    /\ wpc = "check"
    /\ wpc' = IF stop_evt THEN "done" ELSE "input"
    /\ UNCHANGED <<restVars, termVars, extVars, devVars, readerVars, wline, typed,
                   mainVars, stopVars, now, histVars>>

\* line 267: input() returns a line that is not ":quit"
WInputLine(c) ==
    /\ wpc = "input"
    /\ typed < MaxStdin
    /\ Len(downlog) < MaxSends
    /\ wline' = c
    /\ typed' = typed + 1
    /\ wpc' = "send"
    /\ UNCHANGED <<restVars, termVars, extVars, devVars, readerVars, mainVars, stopVars,
                   now, histVars>>

\* lines 268-270: input() raises EOFError
WInputEOF ==
    /\ wpc = "input"
    /\ stop_evt' = TRUE
    /\ wpc' = "done"
    /\ wline' = "EOF"
    /\ UNCHANGED <<restVars, own_session, attach_console, session, threads, down, up, rx_q,
                   extVars, devVars, readerVars, typed, mainVars, stopVars, now,
                   histVars>>

\* lines 272-274: the line is ":quit"
WInputQuit ==
    /\ wpc = "input"
    /\ stop_evt' = TRUE
    /\ wpc' = "done"
    /\ wline' = ":quit"
    /\ UNCHANGED <<restVars, own_session, attach_console, session, threads, down, up, rx_q,
                   extVars, devVars, readerVars, typed, mainVars, stopVars, now,
                   histVars>>

\* line 276: self.send(line)
WSend ==
    /\ wpc = "send"
    /\ downlog' = Append(downlog, [by |-> "stdin", cmd |-> wline, wire |-> Frame(wline)])
    /\ wpc' = "check"
    /\ UNCHANGED <<restVars, termVars, sess_state, upchan, devVars, readerVars, wline, typed,
                   mainVars, stopVars, now, histVars>>

_stdin_writer == WCheck \/ (\E c \in Cmds : WInputLine(c)) \/ WInputEOF \/ WInputQuit \/ WSend

\* ------------------------------------------------------------------ start
\* start(), lines 208-244, called once on a constructed terminal
Start ==
    /\ mpc = "idle"
    /\ down = None
    /\ IF own_session
       THEN session' = "S" /\ sess_state' = "open"
       ELSE UNCHANGED <<session, sess_state>>
    /\ down' = "D" /\ up' = "U"
    /\ upchan' = <<>>
    /\ threads' = threads \o <<"rtt-reader">>
                    \o (IF attach_console THEN <<"stdin-writer">> ELSE <<>>)
    /\ rpc' = "check"
    /\ wpc' = IF attach_console THEN "check" ELSE wpc
    /\ UNCHANGED <<restVars, own_session, attach_console, stop_evt, rx_q, downlog, devVars,
                   buf, rtext, wline, typed, mainVars, stopVars, now, histVars>>

\* ------------------------------------------------------------------- send
\* send(line) called directly by the owner of the terminal, lines 76-87
Send(c) ==
    /\ mpc = "idle"
    /\ Len(downlog) < MaxSends
    /\ IF down = None
       THEN last_ret' = "RuntimeError" /\ UNCHANGED downlog
       ELSE /\ downlog' = Append(downlog, [by |-> "main", cmd |-> c, wire |-> Frame(c)])
            /\ last_ret' = "send"
    /\ UNCHANGED <<restVars, termVars, sess_state, upchan, devVars, readerVars, writerVars,
                   mpc, queryVars, batchVars, last_env, stopVars, now, histVars>>

\* ------------------------------------------------------------------ query
\* query(line, timeout=t, until=u) is invoked
CallQuery(c, t, u) ==
    /\ mpc = "idle"
    /\ Len(downlog) < MaxSends
    /\ mode' = "query"
    /\ q_line' = c /\ q_timeout' = t /\ q_until' = u
    /\ stale' = stale \cup Ids(rx_q)
    /\ callFlag' = stop_evt
    /\ mpc' = "q_drain"
    /\ UNCHANGED <<idlePut, sendVars, startVars, parserVars, termVars, extVars, devVars, readerVars, writerVars, deadline,
                   replies, q_sent, batchVars, last_env, last_ret, stopVars, now,
                   rx_bytes, putLog, obsLog, qlog, events, closes, joins>>

\* query() without the drain loop
QDrain_NoDrain ==
    /\ mpc = "q_drain"
    /\ mpc' = "q_send"
    /\ UNCHANGED <<restVars, termVars, extVars, devVars, readerVars, writerVars, queryVars,
                   batchVars, last_env, last_ret, stopVars, now, histVars>>

\* lines 115-119: one iteration of the drain loop
QDrain ==
    /\ mpc = "q_drain"
    /\ IF rx_q = <<>>
       THEN mpc' = "q_send" /\ UNCHANGED <<rx_q, idlePut>>
       ELSE rx_q' = Tail(rx_q) /\ idlePut' = idlePut \ {Head(rx_q).id} /\ UNCHANGED mpc
    /\ UNCHANGED <<callFlag, sendVars, startVars, parserVars, own_session, attach_console, session, stop_evt, threads, down, up,
                   extVars, devVars, readerVars, writerVars, queryVars, batchVars,
                   last_env, last_ret, stopVars, now, histVars>>

\* lines 121-123: send(line), replies = [], the deadline.  send() raises
\* RuntimeError on a terminal that was not started; the error leaves every
\* call in progress.
QSend ==
    /\ mpc = "q_send"
    /\ IF down = None
       THEN /\ mpc' = "idle"
            /\ mode' = "none"
            /\ last_ret' = "RuntimeError"
            /\ UNCHANGED <<downlog, q_sent, replies, deadline, events>>
       ELSE /\ downlog' = Append(downlog, [by |-> "main", cmd |-> q_line, wire |-> Frame(q_line)])
            /\ q_sent' = Len(downlog) + 1
            /\ replies' = <<>>
            /\ deadline' = now + q_timeout
            /\ events' = IF mode = "batch" THEN Append(events, <<"send", bi>>) ELSE events
            /\ mpc' = "q_loop"
            /\ UNCHANGED <<mode, last_ret>>
    /\ callFlag' = FALSE
    /\ UNCHANGED <<idlePut, sendVars, startVars, parserVars, termVars, sess_state, upchan, devVars, readerVars, writerVars,
                   q_line, q_timeout, q_until, batchVars, last_env, stopVars, now,
                   rx_bytes, putLog, obsLog, qlog, stale, closes, joins>>

\* line 125: while time.monotonic() < deadline
QLoop ==
    /\ mpc = "q_loop"
    /\ mpc' = IF now < deadline THEN "q_get" ELSE "q_ret"
    /\ UNCHANGED <<restVars, termVars, extVars, devVars, readerVars, writerVars, queryVars,
                   batchVars, last_env, last_ret, stopVars, now, histVars>>

\* the collection loop with a get() that has no timeout
QGet_NoTimeout ==
    /\ mpc = "q_get"
    /\ rx_q # <<>>
    /\ rx_q' = Tail(rx_q)
    /\ replies' = Append(replies, Head(rx_q))
    /\ mpc' = IF UntilHolds(q_until, Head(rx_q).text) THEN "q_ret" ELSE "q_loop"
    /\ UNCHANGED <<restVars, own_session, attach_console, session, stop_evt, threads, down, up,
                   extVars, devVars, readerVars, writerVars, mode, q_line, q_timeout,
                   q_until, deadline, q_sent, batchVars, last_env, last_ret, stopVars,
                   now, histVars>>

\* the collection loop without the test of until
QGet_NoBreak ==
    /\ mpc = "q_get"
    /\ \/ /\ rx_q # <<>>
          /\ rx_q' = Tail(rx_q)
          /\ replies' = Append(replies, Head(rx_q))
          /\ mpc' = "q_loop"
       \/ /\ rx_q = <<>>
          /\ now >= deadline
          /\ mpc' = "q_ret"
          /\ UNCHANGED <<rx_q, replies>>
    /\ UNCHANGED <<restVars, own_session, attach_console, session, stop_evt, threads, down, up,
                   extVars, devVars, readerVars, writerVars, mode, q_line, q_timeout,
                   q_until, deadline, q_sent, batchVars, last_env, last_ret, stopVars,
                   now, histVars>>

\* the collection loop with a get() that leaves the line on the queue
QGet_Peek ==
    /\ mpc = "q_get"
    /\ \/ /\ rx_q # <<>>
          /\ replies' = Append(replies, Head(rx_q))
          /\ mpc' = IF UntilHolds(q_until, Head(rx_q).text) THEN "q_ret" ELSE "q_loop"
          /\ UNCHANGED rx_q
       \/ /\ rx_q = <<>>
          /\ now >= deadline
          /\ mpc' = "q_ret"
          /\ UNCHANGED <<rx_q, replies>>
    /\ UNCHANGED <<restVars, own_session, attach_console, session, stop_evt, threads, down, up,
                   extVars, devVars, readerVars, writerVars, mode, q_line, q_timeout,
                   q_until, deadline, q_sent, batchVars, last_env, last_ret, stopVars,
                   now, histVars>>

\* lines 126-134: get(timeout=remaining) returns a line, which is appended and
\* tested with until, or raises queue.Empty once the deadline has passed
QGet ==
    /\ mpc = "q_get"
    /\ \/ /\ rx_q # <<>>
          /\ rx_q' = Tail(rx_q)
          /\ replies' = Append(replies, Head(rx_q))
          /\ mpc' = IF UntilHolds(q_until, Head(rx_q).text) THEN "q_ret" ELSE "q_loop"
       \/ /\ rx_q = <<>>
          /\ now >= deadline
          /\ mpc' = "q_ret"
          /\ UNCHANGED <<rx_q, replies>>
    /\ UNCHANGED <<restVars, own_session, attach_console, session, stop_evt, threads, down, up,
                   extVars, devVars, readerVars, writerVars, mode, q_line, q_timeout,
                   q_until, deadline, q_sent, batchVars, last_env, last_ret, stopVars,
                   now, histVars>>

\* line 135 and the callers' continuations: query() returns replies; at_query()
\* (lines 151-160) builds the envelope; batch_at_query() (line 175) stores it
QReturn ==
    /\ mpc = "q_ret"
    /\ qlog' = Append(qlog, [sent |-> q_sent, until |-> q_until, lines |-> replies])
    /\ IF mode = "query"
       THEN /\ mpc' = "idle" /\ mode' = "none" /\ last_ret' = "query"
            /\ UNCHANGED <<last_env, result, events>>
       ELSE IF mode = "at"
       THEN /\ last_env' = AtPartition(Texts(replies))
            /\ mpc' = "idle" /\ mode' = "none" /\ last_ret' = "at"
            /\ UNCHANGED <<result, events>>
       ELSE /\ last_env' = AtPartition(Texts(replies))
            /\ result' = BatchStore(result, q_line, AtPartition(Texts(replies)))
            /\ events' = Append(events, <<"done", bi>>)
            /\ mpc' = "b_dwell"
            /\ UNCHANGED <<mode, last_ret>>
    /\ UNCHANGED <<ghostVars, sendVars, startVars, parserVars, termVars, extVars, devVars, readerVars, writerVars, q_line,
                   q_timeout, q_until, deadline, replies, q_sent, commands, bi,
                   has_progress, stopVars, now, rx_bytes, putLog, obsLog, stale,
                   closes, joins>>

\* time.monotonic() advances while a query waits for its deadline
Tick ==
    /\ mpc \in {"q_loop", "q_get"}
    /\ now < deadline
    /\ now' = now + 1
    /\ UNCHANGED <<restVars, termVars, extVars, devVars, readerVars, writerVars, mainVars,
                   stopVars, histVars>>

query == QDrain \/ QSend \/ QLoop \/ QGet \/ QReturn

\* --------------------------------------------------------------- at_query
\* at_query(cmd, timeout=t) is invoked: line 149
CallAtQuery(c, t) ==
    /\ mpc = "idle"
    /\ Len(downlog) < MaxSends
    /\ mode' = "at"
    /\ q_line' = c /\ q_timeout' = t /\ q_until' = "at"
    /\ stale' = stale \cup Ids(rx_q)
    /\ callFlag' = stop_evt
    /\ mpc' = "q_drain"
    /\ UNCHANGED <<idlePut, sendVars, startVars, parserVars, termVars, extVars, devVars, readerVars, writerVars, deadline,
                   replies, q_sent, batchVars, last_env, last_ret, stopVars, now,
                   rx_bytes, putLog, obsLog, qlog, events, closes, joins>>

\* --------------------------------------------------------- batch_at_query
\* batch_at_query(cs, timeout=t, progress=p) is invoked: line 171
CallBatch(cs, t, p) ==
    /\ mpc = "idle"
    /\ Len(downlog) + Len(cs) <= MaxSends
    /\ mode' = "batch"
    /\ commands' = cs /\ bi' = 1 /\ result' = EmptyResult /\ has_progress' = p
    /\ q_timeout' = t
    /\ events' = <<>>
    /\ mpc' = "b_iter"
    /\ UNCHANGED <<ghostVars, sendVars, startVars, parserVars, termVars, extVars, devVars, readerVars, writerVars, q_line,
                   q_until, deadline, replies, q_sent, last_env, last_ret, stopVars,
                   now, rx_bytes, putLog, obsLog, qlog, stale, closes, joins>>

\* lines 172-175: the next command: progress(cmd), then at_query(cmd) is
\* invoked; line 177 when the commands are exhausted
BatchIter ==
    /\ mpc = "b_iter"
    /\ IF bi > Len(commands)
       THEN /\ mpc' = "idle" /\ mode' = "none" /\ last_ret' = "batch"
            /\ UNCHANGED <<q_line, q_until, stale, events, callFlag>>
       ELSE /\ events' = IF has_progress THEN Append(events, <<"progress", bi>>) ELSE events
            /\ q_line' = commands[bi] /\ q_until' = "at"
            /\ stale' = stale \cup Ids(rx_q)
            /\ callFlag' = stop_evt
            /\ mpc' = "q_drain"
            /\ UNCHANGED <<mode, last_ret>>
    /\ UNCHANGED <<idlePut, sendVars, startVars, parserVars, termVars, extVars, devVars, readerVars, writerVars, q_timeout,
                   deadline, replies, q_sent, batchVars, last_env, stopVars, now,
                   rx_bytes, putLog, obsLog, qlog, closes, joins>>

\* a batch that dwells only after a command that ended in OK
BatchDwell_OkOnly ==
    /\ mpc = "b_dwell"
    /\ events' = IF last_env.status = <<"OK">> THEN Append(events, <<"dwell", bi>>) ELSE events
    /\ bi' = bi + 1
    /\ mpc' = "b_iter"
    /\ UNCHANGED <<restVars, termVars, extVars, devVars, readerVars, writerVars, queryVars,
                   commands, result, has_progress, last_env, last_ret, stopVars, now,
                   rx_bytes, putLog, obsLog, qlog, stale, closes, joins>>

\* line 176: time.sleep(dwell)
BatchDwell ==
    /\ mpc = "b_dwell"
    /\ events' = Append(events, <<"dwell", bi>>)
    /\ bi' = bi + 1
    /\ mpc' = "b_iter"
    /\ UNCHANGED <<restVars, termVars, extVars, devVars, readerVars, writerVars, queryVars,
                   commands, result, has_progress, last_env, last_ret, stopVars, now,
                   rx_bytes, putLog, obsLog, qlog, stale, closes, joins>>

batch_at_query == BatchIter \/ BatchDwell

\* ------------------------------------------------- send(), chunk by chunk
\* Send, QSend and WSend above take the send() of a short command, which is
\* one write() call, in one step.  The actions below follow send() one
\* write() at a time, for lines of any length and writes that may fail.

\* a line of n ASCII characters
Body(n) == [i \in 1..n |-> IF i % 2 = 1 THEN "A" ELSE "T"]
\* the lines a caller passes to send(), by name
LongLines == {"", "L1019", "L1020", "L2044", "E9", "A|B"}
\* the characters of a line
Chars(c) ==
    CASE c = "" -> <<>>
      [] c = "AT" -> <<"A", "T">>
      [] c = "AT%X" -> <<"A", "T", "%", "X">>
      [] c = "L1019" -> Body(1019)
      [] c = "L1020" -> Body(1020)
      [] c = "L2044" -> Body(2044)
      [] c = "E9" -> <<"A", "U+00E9">>
      [] c = "A|B" -> <<"A", "\n", "B">>

Min(a, b) == IF a < b THEN a ELSE b
\* a send() that forgets the sentinel
Payload_NoEOM(c) == Encode(Chars(c))
\* line 81: payload = line.encode() + EOM, for every line of the model
PayloadTable == [c \in Cmds \cup LongLines |-> Encode(Chars(c)) \o EOM]
Payload(c) == PayloadTable[c]
\* a slice one byte short: payload[i : i + CHUNK - 1]
Part_Short(payload, i) == SubSeq(payload, i + 1, Min(i + CHUNK - 1, Len(payload)))
\* line 84: part = payload[i : i + CHUNK]
Part(payload, i) == SubSeq(payload, i + 1, Min(i + CHUNK, Len(payload)))
\* the bytes passed to the write() call recorded as w
WBytes(w) == SubSeq(Payload(w.cmd), w.off + 1, w.off + w.len)
\* the write() calls that failed
Failed == {k \in 1..Len(wlog) : ~wlog[k].ok}

\* lines 78-82 for thread t sending line c: the locals of the chunk loop
EnterLoop(t, c) ==
    /\ s_cmd' = [s_cmd EXCEPT ![t] = c]
    /\ s_i' = [s_i EXCEPT ![t] = 0]
    /\ s_sent' = [s_sent EXCEPT ![t] = 0]
    /\ s_op' = [s_op EXCEPT ![t] = ops + 1]
    /\ ops' = ops + 1
\* line 83: the loop of thread t has a chunk left
HasChunk(t) == s_i[t] < Len(Payload(s_cmd[t]))
\* line 85: the write() call of thread t, which returns (ok) or raises
WriteCall(t, ok) ==
    wlog' = Append(wlog, [by |-> t, op |-> s_op[t], cmd |-> s_cmd[t], off |-> s_i[t],
                          len |-> Len(Part(Payload(s_cmd[t]), s_i[t])), ok |-> ok])
\* line 86 and the next iteration: sent += len(part); i += CHUNK
Advance(t) ==
    /\ s_sent' = [s_sent EXCEPT ![t] = @ + Len(Part(Payload(s_cmd[t]), s_i[t]))]
    /\ s_i' = [s_i EXCEPT ![t] = @ + CHUNK]
\* line 87: return sent; the command is on the wire in full
Returned(t) ==
    /\ sendlog' = Append(sendlog, [op |-> s_op[t], by |-> t, cmd |-> s_cmd[t],
                                    ret |-> s_sent[t]])
    /\ downlog' = Append(downlog, [by |-> t, cmd |-> s_cmd[t], wire |-> Frame(s_cmd[t])])

\* send(c) is invoked by the owner of the terminal: lines 78-82
CallSend(c) ==
    /\ mpc = "idle"
    /\ Len(downlog) < MaxSends
    /\ q_line' = c
    /\ IF down = None
       THEN /\ last_ret' = "RuntimeError"
            /\ UNCHANGED <<mpc, mode, s_cmd, s_i, s_sent, s_op, ops>>
       ELSE /\ EnterLoop("main", c)
            /\ mode' = "send"
            /\ mpc' = "s_loop"
            /\ UNCHANGED last_ret
    /\ UNCHANGED <<ghostVars, wlog, sendlog, raised, echoed, startVars, parserVars,
                   termVars, extVars, devVars, readerVars, writerVars, q_timeout,
                   q_until, deadline, replies, q_sent, batchVars, last_env, stopVars,
                   now, histVars>>

\* a query() whose send() does not test that the terminal has a down channel
QSendEnter_NoTest ==
    /\ mpc = "q_send"
    /\ EnterLoop("main", q_line)
    /\ mpc' = "s_loop"
    /\ UNCHANGED <<mode, last_ret, callFlag>>
    /\ UNCHANGED <<idlePut, wlog, sendlog, raised, echoed, startVars, parserVars,
                   termVars, extVars, devVars, readerVars, writerVars, q_line,
                   q_timeout, q_until, deadline, replies, q_sent, batchVars, last_env,
                   stopVars, now, histVars>>

\* line 121 in query(): self.send(line) is invoked, lines 78-82
QSendEnter ==
    /\ mpc = "q_send"
    /\ IF down = None
       THEN /\ mpc' = "idle"
            /\ mode' = "none"
            /\ last_ret' = "RuntimeError"
            /\ callFlag' = FALSE
            /\ UNCHANGED <<s_cmd, s_i, s_sent, s_op, ops>>
       ELSE /\ EnterLoop("main", q_line)
            /\ mpc' = "s_loop"
            /\ UNCHANGED <<mode, last_ret, callFlag>>
    /\ UNCHANGED <<idlePut, wlog, sendlog, raised, echoed, startVars, parserVars,
                   termVars, extVars, devVars, readerVars, writerVars, q_line,
                   q_timeout, q_until, deadline, replies, q_sent, batchVars, last_env,
                   stopVars, now, histVars>>

\* the chunk loop going on to the next chunk after a write() that raised
MSendChunkFail_Swallow ==
    /\ mpc = "s_loop"
    /\ HasChunk("main")
    /\ Cardinality(Failed) < MaxFails
    /\ WriteCall("main", FALSE)
    /\ Advance("main")
    /\ UNCHANGED <<ghostVars, s_cmd, s_op, ops, sendlog, raised, echoed, startVars,
                   parserVars, termVars, extVars, devVars, readerVars, writerVars,
                   mainVars, stopVars, now, histVars>>

\* lines 83-86 on the calling thread: one chunk is written
MSendChunk ==
    /\ mpc = "s_loop"
    /\ HasChunk("main")
    /\ WriteCall("main", TRUE)
    /\ Advance("main")
    /\ UNCHANGED <<ghostVars, s_cmd, s_op, ops, sendlog, raised, echoed, startVars,
                   parserVars, termVars, extVars, devVars, readerVars, writerVars,
                   mainVars, stopVars, now, histVars>>

\* line 85 on the calling thread: write() raises.  Nothing catches the error
\* in send(), query(), at_query() or batch_at_query(): it ends the outermost
\* call in progress.
MSendChunkFail ==
    /\ mpc = "s_loop"
    /\ HasChunk("main")
    /\ Cardinality(Failed) < MaxFails
    /\ WriteCall("main", FALSE)
    /\ raised' = Append(raised, [op |-> s_op["main"], by |-> "main", mode |-> mode])
    /\ mpc' = "idle"
    /\ mode' = "none"
    /\ last_ret' = "WriteError"
    /\ callFlag' = FALSE
    /\ UNCHANGED <<idlePut, s_cmd, s_i, s_sent, s_op, ops, sendlog, echoed, startVars,
                   parserVars, termVars, extVars, devVars, readerVars, writerVars,
                   q_line, q_timeout, q_until, deadline, replies, q_sent, batchVars,
                   last_env, stopVars, now, histVars>>

\* line 87 on the calling thread: send() returns; a direct call ends, query()
\* goes on with lines 122-123
MSendReturn ==
    /\ mpc = "s_loop"
    /\ ~HasChunk("main")
    /\ Returned("main")
    /\ IF mode = "send"
       THEN /\ mpc' = "idle"
            /\ mode' = "none"
            /\ last_ret' = "send"
            /\ UNCHANGED <<q_sent, replies, deadline, events>>
       ELSE /\ q_sent' = Len(downlog) + 1
            /\ replies' = <<>>
            /\ deadline' = now + q_timeout
            /\ events' = IF mode = "batch" THEN Append(events, <<"send", bi>>) ELSE events
            /\ mpc' = "q_loop"
            /\ UNCHANGED <<mode, last_ret>>
    /\ callFlag' = FALSE
    /\ UNCHANGED <<idlePut, s_cmd, s_i, s_sent, s_op, ops, wlog, raised, echoed,
                   startVars, parserVars, termVars, sess_state, upchan, devVars,
                   readerVars, writerVars, q_line, q_timeout, q_until, batchVars,
                   last_env, stopVars, now, rx_bytes, putLog, obsLog, qlog, stale,
                   closes, joins>>

\* line 276 in _stdin_writer: self.send(line) is invoked, lines 78-82
WSendEnter ==
    /\ wpc = "send"
    /\ IF down = None
       THEN wpc' = "done" /\ UNCHANGED <<s_cmd, s_i, s_sent, s_op, ops>>
       ELSE EnterLoop("stdin", wline) /\ wpc' = "s_loop"
    /\ UNCHANGED <<ghostVars, wlog, sendlog, raised, echoed, startVars, parserVars,
                   termVars, extVars, devVars, readerVars, wline, typed, mainVars,
                   stopVars, now, histVars>>

\* lines 83-86 on the stdin thread: one chunk is written
WSendChunk ==
    /\ wpc = "s_loop"
    /\ HasChunk("stdin")
    /\ WriteCall("stdin", TRUE)
    /\ Advance("stdin")
    /\ UNCHANGED <<ghostVars, s_cmd, s_op, ops, sendlog, raised, echoed, startVars,
                   parserVars, termVars, extVars, devVars, readerVars, writerVars,
                   mainVars, stopVars, now, histVars>>

\* line 85 on the stdin thread: write() raises; _stdin_writer catches only
\* KeyboardInterrupt (line 277), so the error ends the thread
WSendChunkFail ==
    /\ wpc = "s_loop"
    /\ HasChunk("stdin")
    /\ Cardinality(Failed) < MaxFails
    /\ WriteCall("stdin", FALSE)
    /\ raised' = Append(raised, [op |-> s_op["stdin"], by |-> "stdin", mode |-> "stdin"])
    /\ wpc' = "done"
    /\ UNCHANGED <<ghostVars, s_cmd, s_i, s_sent, s_op, ops, sendlog, echoed, startVars,
                   parserVars, termVars, extVars, devVars, readerVars, wline, typed,
                   mainVars, stopVars, now, histVars>>

\* line 87 on the stdin thread: send() returns, back to line 265
WSendReturn ==
    /\ wpc = "s_loop"
    /\ ~HasChunk("stdin")
    /\ Returned("stdin")
    /\ wpc' = "check"
    /\ UNCHANGED <<ghostVars, s_cmd, s_i, s_sent, s_op, ops, wlog, raised, echoed,
                   startVars, parserVars, termVars, sess_state, upchan, devVars,
                   readerVars, wline, typed, mainVars, stopVars, now, histVars>>

\* a device that loops back: the bytes of the next write() on the down channel
\* appear on the up channel
Echo ==
    /\ echoed < Len(wlog)
    /\ upchan' = IF wlog[echoed + 1].ok THEN upchan \o WBytes(wlog[echoed + 1]) ELSE upchan
    /\ echoed' = echoed + 1
    /\ UNCHANGED <<ghostVars, s_cmd, s_i, s_sent, s_op, ops, wlog, sendlog, raised,
                   startVars, parserVars, termVars, sess_state, downlog, devVars,
                   readerVars, writerVars, mainVars, stopVars, now, histVars>>

\* ------------------------------------------------------------------- stop
\* has the thread named t returned
Exited(t) ==
    IF t = "rtt-reader" THEN rpc = "done"
    ELSE IF t = "stdin-writer" THEN wpc = "done"
    ELSE xr[ReaderIndex(t)].pc = "done"

\* lines 184-186: return when the flag is set, else set it
StopBegin ==
    /\ spc = "idle"
    /\ Len(stops) < MaxStops
    /\ IF stop_evt
       THEN /\ stops' = Append(stops, down # None)
            /\ UNCHANGED <<stop_evt, spc, ji>>
       ELSE /\ stop_evt' = TRUE
            /\ spc' = "join"
            /\ ji' = 1
            /\ UNCHANGED stops
    /\ UNCHANGED <<restVars, own_session, attach_console, session, threads, down, up, rx_q,
                   extVars, devVars, readerVars, writerVars, mainVars, now, histVars>>

\* line 188: t.join(timeout=0.5) returns because the thread has exited
StopJoin ==
    /\ spc = "join"
    /\ ji <= Len(threads)
    /\ Exited(threads[ji])
    /\ joins' = [joins EXCEPT ![threads[ji]] = @ + 1]
    /\ ji' = ji + 1
    /\ UNCHANGED <<restVars, termVars, extVars, devVars, readerVars, writerVars, mainVars,
                   spc, stops, now, rx_bytes, putLog, obsLog, qlog, stale, events,
                   closes>>

\* line 188: t.join(timeout=0.5) returns after 0.5 s because the stdin
\* thread is still blocked in input()
StopJoinTimeout ==
    /\ spc = "join"
    /\ ji <= Len(threads)
    /\ threads[ji] = "stdin-writer"
    /\ wpc = "input"
    /\ joins' = [joins EXCEPT ![threads[ji]] = @ + 1]
    /\ ji' = ji + 1
    /\ UNCHANGED <<restVars, termVars, extVars, devVars, readerVars, writerVars, mainVars,
                   spc, stops, now, rx_bytes, putLog, obsLog, qlog, stale, events,
                   closes>>

\* the end of a stop() that closes whatever session the terminal holds
StopFinish_CloseAny ==
    /\ spc = "join"
    /\ ji > Len(threads)
    /\ threads' = <<>>
    /\ IF session # None
       THEN /\ sess_state' = "closed"
            /\ closes' = closes + 1
            /\ session' = None
       ELSE UNCHANGED <<sess_state, closes, session>>
    /\ spc' = "idle"
    /\ stops' = Append(stops, down # None)
    /\ UNCHANGED <<restVars, own_session, attach_console, stop_evt, down, up, rx_q, upchan,
                   downlog, devVars, readerVars, writerVars, mainVars, ji, now,
                   rx_bytes, putLog, obsLog, qlog, stale, events, joins>>

\* lines 189-194: clear the thread list, close the session the terminal owns
StopFinish ==
    /\ spc = "join"
    /\ ji > Len(threads)
    /\ threads' = <<>>
    /\ IF own_session /\ session # None
       THEN /\ sess_state' = "closed"
            /\ closes' = closes + 1
            /\ session' = None
       ELSE UNCHANGED <<sess_state, closes, session>>
    /\ spc' = "idle"
    /\ stops' = Append(stops, down # None)
    /\ UNCHANGED <<restVars, own_session, attach_console, stop_evt, down, up, rx_q, upchan,
                   downlog, devVars, readerVars, writerVars, mainVars, ji, now,
                   rx_bytes, putLog, obsLog, qlog, stale, events, joins>>

\* a stop() that neither tests the flag nor forgets what it has released:
\*   self._stop_evt.set(); for t in self._threads: t.join(timeout=0.5)
\*   if self._own_session: self._session.close()
StopBegin_Naive ==
    /\ spc = "idle"
    /\ Len(stops) < MaxStops
    /\ stop_evt' = TRUE
    /\ spc' = "join"
    /\ ji' = 1
    /\ UNCHANGED <<restVars, own_session, attach_console, session, threads, down, up, rx_q,
                   extVars, devVars, readerVars, writerVars, mainVars, stops, now,
                   histVars>>
StopFinish_Naive ==
    /\ spc = "join"
    /\ ji > Len(threads)
    /\ IF own_session /\ session # None
       THEN sess_state' = "closed" /\ closes' = closes + 1
       ELSE UNCHANGED <<sess_state, closes>>
    /\ spc' = "idle"
    /\ stops' = Append(stops, down # None)
    /\ UNCHANGED <<restVars, termVars, upchan, downlog, devVars, readerVars, writerVars,
                   mainVars, ji, now, rx_bytes, putLog, obsLog, qlog, stale, events,
                   joins>>
stop_Naive == StopBegin_Naive \/ StopJoin \/ StopJoinTimeout \/ StopFinish_Naive

\* stop(), lines 183-194
stop == StopBegin \/ StopJoin \/ StopJoinTimeout \/ StopFinish

\* ----------------------------------------------------- start() called again
\* start(), lines 208-244, on a terminal that was started before and has no
\* console attached: a terminal that holds a session of its own refuses
\* (line 215); otherwise the channels are hooked again, the up channel is
\* purged and one more reader thread is created and started
StartAgain ==
    /\ mpc = "idle"
    /\ down # None
    /\ ~attach_console
    /\ Len(xr) + 1 < MaxStarts
    /\ IF own_session /\ session # None
       THEN /\ last_ret' = "RuntimeError"
            /\ UNCHANGED <<session, sess_state, down, up, upchan, threads, xr>>
       ELSE /\ IF own_session
               THEN session' = "S" /\ sess_state' = "open"
               ELSE UNCHANGED <<session, sess_state>>
            /\ down' = "D" /\ up' = "U"
            /\ upchan' = <<>>
            /\ threads' = Append(threads, ExtraReaders[Len(xr) + 1])
            /\ xr' = Append(xr, [pc |-> "check", buf |-> <<>>, text |-> <<>>])
            /\ UNCHANGED last_ret
    /\ UNCHANGED <<ghostVars, sendVars, parserVars, own_session, attach_console,
                   stop_evt, rx_q, downlog, devVars, readerVars, writerVars, mpc,
                   queryVars, batchVars, last_env, stopVars, now, histVars>>

\* start(), lines 208-244, called again on a terminal with the console
\* attached whose stop flag is set: one more reader thread and one more stdin
\* thread are created and started; the stdin thread finds the flag set at its
\* first test (line 265) and returns without reading the console
StartAgainConsole ==
    /\ mpc = "idle"
    /\ down # None
    /\ attach_console /\ stop_evt
    /\ Len(xr) + 1 < MaxStarts
    /\ IF own_session /\ session # None
       THEN /\ last_ret' = "RuntimeError"
            /\ UNCHANGED <<session, sess_state, down, up, upchan, threads, xr>>
       ELSE /\ IF own_session
               THEN session' = "S" /\ sess_state' = "open"
               ELSE UNCHANGED <<session, sess_state>>
            /\ down' = "D" /\ up' = "U"
            /\ upchan' = <<>>
            /\ threads' = threads \o <<ExtraReaders[Len(xr) + 1], "stdin-writer">>
            /\ xr' = Append(xr, [pc |-> "check", buf |-> <<>>, text |-> <<>>])
            /\ UNCHANGED last_ret
    /\ UNCHANGED <<ghostVars, sendVars, parserVars, own_session, attach_console,
                   stop_evt, rx_q, downlog, devVars, readerVars, writerVars, mpc,
                   queryVars, batchVars, last_env, stopVars, now, histVars>>

\* line 282 in the k-th later reader thread
XRCheck(k) ==
    /\ xr[k].pc = "check"
    /\ xr' = [xr EXCEPT ![k].pc = IF stop_evt THEN "done" ELSE "read"]
    /\ UNCHANGED <<ghostVars, sendVars, parserVars, termVars, extVars, devVars,
                   readerVars, writerVars, mainVars, stopVars, now, histVars>>

\* lines 283-285, 292-293 in the k-th later reader thread
XRRead(k) ==
    /\ xr[k].pc = "read"
    /\ LET data == IF up # None THEN upchan ELSE <<>> IN
        IF data # <<>>
        THEN /\ xr' = [xr EXCEPT ![k].buf = @ \o data, ![k].pc = "split"]
             /\ upchan' = <<>>
             /\ rx_bytes' = rx_bytes \o data
        ELSE /\ xr' = [xr EXCEPT ![k].pc = "check"]
             /\ UNCHANGED <<upchan, rx_bytes>>
    /\ UNCHANGED <<ghostVars, sendVars, parserVars, termVars, sess_state, downlog,
                   devVars, readerVars, writerVars, mainVars, stopVars, now, putLog,
                   obsLog, qlog, stale, events, closes, joins>>

\* lines 286-289 in the k-th later reader thread
XRSplit(k) ==
    /\ xr[k].pc = "split"
    /\ IF HasNewline(xr[k].buf)
       THEN LET text == Decode(PartitionLine(xr[k].buf))
                item == [id |-> Len(putLog) + 1, text |-> text] IN
            /\ rx_q' = Append(rx_q, item)
            /\ putLog' = Append(putLog, item)
            /\ xr' = [xr EXCEPT ![k].text = text, ![k].pc = "obs"]
            /\ idlePut' = IF QueryPending THEN idlePut ELSE idlePut \cup {item.id}
       ELSE /\ xr' = [xr EXCEPT ![k].pc = "check"]
            /\ UNCHANGED <<rx_q, putLog, idlePut>>
    /\ UNCHANGED <<callFlag, sendVars, parserVars, own_session, attach_console,
                   session, stop_evt, threads, down, up, extVars, devVars, readerVars,
                   writerVars, mainVars, stopVars, now, rx_bytes, obsLog, qlog, stale,
                   events, closes, joins>>

\* lines 290-291 in the k-th later reader thread
XRObs(k) ==
    /\ xr[k].pc = "obs"
    /\ obsLog' = Append(obsLog, xr[k].text)
    /\ xr' = [xr EXCEPT ![k].buf = PartitionRest(@), ![k].pc = "split"]
    /\ UNCHANGED <<ghostVars, sendVars, parserVars, termVars, extVars, devVars,
                   readerVars, writerVars, mainVars, stopVars, now, rx_bytes, putLog,
                   qlog, stale, events, closes, joins>>

\* the reader threads of later start() calls
later_rtt_readers ==
    \E k \in 1..Len(xr) : XRCheck(k) \/ XRRead(k) \/ XRSplit(k) \/ XRObs(k)

\* ------------------------------------------------------------ at_parser.py
\* Texts of at_parser.py are strings, read one character at a time.  A code
\* point outside ASCII is written U+XXXX inside a string.

\* s[i:j] for 1-based, inclusive i..j
Sub(s, i, j) == IF i > j THEN "" ELSE SubSeq(s, i, j)
Ch(s, i) == SubSeq(s, i, i)
Digits == {"0", "1", "2", "3", "4", "5", "6", "7", "8", "9"}
\* the characters \s of a pattern and str.strip() take for white space
Spaces == {" ", "\t", "\n", "\r", "\f"}
DigitVal(c) == CHOOSE d \in 0..9 : Ch("0123456789", d + 1) = c

\* the value of a run of decimal digits
RECURSIVE DigitsVal(_)
DigitsVal(s) ==
    IF s = "" THEN 0
    ELSE 10 * DigitsVal(Sub(s, 1, Len(s) - 1)) + DigitVal(Ch(s, Len(s)))

\* int(x) for x matching [-+]?\d+
IntOf(x) ==
    IF Ch(x, 1) = "-" THEN 0 - DigitsVal(Sub(x, 2, Len(x)))
    ELSE IF Ch(x, 1) = "+" THEN DigitsVal(Sub(x, 2, Len(x)))
    ELSE DigitsVal(x)

\* s[p:].startswith(lit), p counted from 1
LitAt(s, p, lit) == p + Len(lit) - 1 <= Len(s) /\ SubSeq(s, p, p + Len(lit) - 1) = lit
DigitAt(s, p) == p <= Len(s) /\ Ch(s, p) \in Digits
\* the last position of the longest run of characters of cs that starts at p
\* (p - 1 when there is none): what a greedy cs* matches
RunEnd(s, p, cs) ==
    CHOOSE e \in (p - 1)..Len(s) :
        /\ \A i \in p..e : Ch(s, i) \in cs
        /\ e = Len(s) \/ Ch(s, e + 1) \notin cs
\* re.search: the leftmost position a pattern matches at, 0 for no match
Leftmost(ps) == IF ps = {} THEN 0 ELSE CHOOSE p \in ps : \A q \in ps : p <= q

\* s.find(c) counted from 1, 0 when c is not in s
Find(s, c) == Leftmost({i \in 1..Len(s) : Ch(s, i) = c})

\* str.strip()
StripStr(s) ==
    LET ks == {i \in 1..Len(s) : Ch(s, i) \notin Spaces} IN
    IF ks = {} THEN ""
    ELSE Sub(s, Leftmost(ks), CHOOSE j \in ks : \A q \in ks : q <= j)

\* --- values of Parsed.value and of rules, tagged with their Python type
VStr(s) == [k |-> "str", s |-> s]
VInt(n) == [k |-> "int", n |-> n]
VNone == [k |-> "none"]
\* a tuple of ints
VTuple(t) == [k |-> "tuple", t |-> t]
\* the dict of line 253: field -> int or None
VDict(d) == [k |-> "dict", d |-> d]
XmonKeys == <<"reg_status", "band", "rsrp_dbm", "snr_db">>

\* a == b of Python: values of different types are never equal
VEq(a, b) == a.k = b.k /\ a = b

\* str(n) of an int
IntStr(n) == ToString(n)

\* ", ".join(parts)
RECURSIVE JoinWith(_, _)
JoinWith(sep, parts) ==
    IF parts = <<>> THEN ""
    ELSE IF Len(parts) = 1 THEN parts[1]
    ELSE parts[1] \o sep \o JoinWith(sep, Tail(parts))

\* the text of s[lo..hi] inside the quotes of repr(s): a line feed becomes \n
RECURSIVE Escaped(_, _, _)
Escaped(s, lo, hi) ==
    IF lo > hi THEN ""
    ELSE IF lo = hi THEN (IF Ch(s, lo) = "\n" THEN "\\n" ELSE Ch(s, lo))
    ELSE Escaped(s, lo, (lo + hi) \div 2) \o Escaped(s, (lo + hi) \div 2 + 1, hi)

\* repr(v), the !r of an f-string; str(v) differs for a string only
Repr(v) ==
    CASE v.k = "str" -> "'" \o Escaped(v.s, 1, Len(v.s)) \o "'"
      [] v.k = "int" -> IntStr(v.n)
      [] v.k = "none" -> "None"
      [] v.k = "tuple" ->
            "(" \o JoinWith(", ", [i \in 1..Len(v.t) |-> IntStr(v.t[i])]) \o ")"
      [] v.k = "dict" ->
            "{" \o JoinWith(", ", [i \in 1..Len(XmonKeys) |->
                    "'" \o XmonKeys[i] \o "': " \o
                    (IF v.d[XmonKeys[i]].k = "int" THEN IntStr(v.d[XmonKeys[i]].n)
                     ELSE "None")]) \o "}"
Str(v) == IF v.k = "str" THEN v.s ELSE Repr(v)
\* str(list) of a list of values
ListStr(vs) == "[" \o JoinWith(", ", [i \in 1..Len(vs) |-> Repr(vs[i])]) \o "]"

\* --- rules: a dict with the keys of `keys` among equals, allowed, min, max,
\* and a field ("" when the rule has none)
Rule(field, keys, equals, allowed, lo, hi) ==
    [field |-> field, keys |-> keys, equals |-> equals, allowed |-> allowed,
     min |-> lo, max |-> hi]
\* field or 'value'
FieldOrValue(rule) == IF rule.field = "" THEN "value" ELSE rule.field
\* rule.get("min", float("-inf")) and rule.get("max", float("inf")) as text
LoStr(rule) == IF "min" \in rule.keys THEN IntStr(rule.min) ELSE "-inf"
HiStr(rule) == IF "max" \in rule.keys THEN IntStr(rule.max) ELSE "inf"

\* lines 114-117: the value a rule looks at
Selected(val, rule) ==
    IF val.k = "dict" /\ rule.field # ""
    THEN (IF rule.field \in DOMAIN val.d THEN val.d[rule.field] ELSE VNone)
    ELSE val

\* an ok(rule) that lets a missing value pass and fails every other
RuleOk_MissingPasses(val, rule) ==
    LET v == Selected(val, rule) IN
    IF v.k = "none" THEN [passed |-> TRUE, reasons |-> <<>>]
    ELSE [passed |-> FALSE, reasons |-> <<FieldOrValue(rule) \o " failed">>]

\* ok(rule), lines 113-139: the verdict of one rule and what it appends to
\* reasons.  lo <= v <= hi raises TypeError, caught at line 135, for a value
\* that is not a number.
RuleOk(val, rule) ==
    LET v == Selected(val, rule)
        fv == FieldOrValue(rule) IN
    IF v.k = "none"
    THEN [passed |-> FALSE, reasons |-> <<fv \o " missing">>]
    ELSE IF "equals" \in rule.keys
    THEN IF VEq(v, rule.equals)
         THEN [passed |-> TRUE, reasons |-> <<>>]
         ELSE [passed |-> FALSE,
               reasons |-> <<fv \o " U+2260 " \o Repr(rule.equals)
                                \o " (got " \o Repr(v) \o ")">>]
    ELSE IF "allowed" \in rule.keys
    THEN IF \E i \in 1..Len(rule.allowed) : VEq(v, rule.allowed[i])
         THEN [passed |-> TRUE, reasons |-> <<>>]
         ELSE [passed |-> FALSE,
               reasons |-> <<Repr(v) \o " not in " \o ListStr(rule.allowed)>>]
    ELSE IF /\ v.k = "int"
            /\ ("min" \in rule.keys => rule.min <= v.n)
            /\ ("max" \in rule.keys => v.n <= rule.max)
         THEN [passed |-> TRUE, reasons |-> <<>>]
         ELSE [passed |-> FALSE,
               reasons |-> <<fv \o " " \o Str(v) \o " outside [" \o LoStr(rule)
                                \o "U+2013" \o HiStr(rule) \o "]">>]

\* any(ok(r) for r in rules) in the place of all()
RECURSIVE AllOk_Any(_, _, _, _)
AllOk_Any(val, rules, i, reasons) ==
    IF i > Len(rules) THEN [ok |-> FALSE, reasons |-> reasons]
    ELSE LET r == RuleOk(val, rules[i]) IN
         IF r.passed THEN [ok |-> TRUE, reasons |-> reasons]
         ELSE AllOk_Any(val, rules, i + 1, reasons \o r.reasons)

\* line 141: all(ok(r) for r in rules) from the i-th rule on; all() asks for
\* no further rule once one has failed
RECURSIVE AllOk(_, _, _, _)
AllOk(val, rules, i, reasons) ==
    IF i > Len(rules) THEN [ok |-> TRUE, reasons |-> reasons]
    ELSE LET r == RuleOk(val, rules[i]) IN
         IF r.passed THEN AllOk(val, rules, i + 1, reasons \o r.reasons)
         ELSE [ok |-> FALSE, reasons |-> reasons \o r.reasons]

\* lines 110-142
_apply_rules(val, rules) == AllOk(val, rules, 1, <<>>)

\* --- the built-in parsers: each returns Parsed(value, description) and its
\* default verdict
IsEmptyStr(reply) == reply = ""

\* (status or "OK") == "OK", lines 150 and 157: a status of None counts as "OK"
StatusOk(status) == (IF status = NoStatus THEN <<"OK">> ELSE status) = <<"OK">>

Unparseable(r) == [parsed |-> [value |-> VStr(r), description |-> "unparseable"], ok |-> FALSE]

\* a fallback that passes on a status of "OK" only
_pass_if_ok_Strict(reply, status) ==
    [parsed |-> [value |-> VStr(reply),
                 description |-> IF IsEmptyStr(reply) THEN "(no reply)" ELSE reply],
     ok |-> status = <<"OK">>]

\* lines 149-150
_pass_if_ok(reply, status) ==
    [parsed |-> [value |-> VStr(reply),
                 description |-> IF IsEmptyStr(reply) THEN "(no reply)" ELSE reply],
     ok |-> StatusOk(status)]

\* lines 153-160 with strip_prefix=False
_verbatim(reply, status) ==
    [parsed |-> [value |-> VStr(reply), description |-> reply],
     ok |-> StatusOk(status) /\ ~IsEmptyStr(reply)]

\* lines 153-160 with strip_prefix=True: reply.split(":", 1)[1].strip()
_verbatim_strip_prefix(reply, status) ==
    LET stripped == IF Find(reply, ":") # 0
                    THEN StripStr(Sub(reply, Find(reply, ":") + 1, Len(reply)))
                    ELSE reply IN
    [parsed |-> [value |-> VStr(stripped), description |-> stripped],
     ok |-> StatusOk(status) /\ ~IsEmptyStr(stripped)]

\* the texts of lines 168-175 and 237-244
RegText(stat) ==
    CASE stat = 0 -> "not registered"
      [] stat = 1 -> "registered- home"
      [] stat = 2 -> "searching"
      [] stat = 3 -> "denied"
      [] stat = 4 -> "unknown"
      [] stat = 5 -> "registered- roaming"
      [] OTHER -> "unknown"

\* lines 163-176: re.search(r"\+CEREG: \d,(\d)", r)
_parse_cereg(r, status) ==
    LET m == Leftmost({p \in 1..Len(r) :
                 /\ LitAt(r, p, "+CEREG: ") /\ DigitAt(r, p + 8)
                 /\ LitAt(r, p + 9, ",") /\ DigitAt(r, p + 10)})
        stat == DigitVal(Ch(r, m + 10)) IN
    IF m = 0 THEN Unparseable(r)
    ELSE [parsed |-> [value |-> VInt(stat), description |-> RegText(stat)],
          ok |-> stat \in {1, 5}]

\* f"{mv/1000:.2f}": mv/1000 to the nearest hundredth (no reply of the model
\* lies half way between two hundredths)
Fixed2(mv) ==
    LET h == (mv + 5) \div 10
        frac == h % 100 IN
    IntStr(h \div 100) \o "." \o (IF frac < 10 THEN "0" ELSE "") \o IntStr(frac)

\* lines 179-184: re.search(r"%XVBAT:\s*(\d+)", r)
_parse_xvbat(r, status) ==
    LET m == Leftmost({p \in 1..Len(r) :
                 LitAt(r, p, "%XVBAT:") /\ DigitAt(r, RunEnd(r, p + 7, Spaces) + 1)})
        q == RunEnd(r, m + 7, Spaces) + 1
        mv == DigitsVal(Sub(r, q, RunEnd(r, q, Digits))) IN
    IF m = 0 THEN Unparseable(r)
    ELSE [parsed |-> [value |-> VInt(mv), description |-> Fixed2(mv) \o " V"],
          ok |-> 3300 <= mv /\ mv <= 5500]

\* lines 187-192: re.search(r"%XTEMP:\s*(-?\d+)", r)
_parse_xtemp(r, status) ==
    LET NumAt(q) == IF LitAt(r, q, "-") THEN DigitAt(r, q + 1) ELSE DigitAt(r, q)
        m == Leftmost({p \in 1..Len(r) :
                 LitAt(r, p, "%XTEMP:") /\ NumAt(RunEnd(r, p + 7, Spaces) + 1)})
        q == RunEnd(r, m + 7, Spaces) + 1
        d == IF LitAt(r, q, "-") THEN q + 1 ELSE q
        t == IntOf(Sub(r, q, RunEnd(r, d, Digits))) IN
    IF m = 0 THEN Unparseable(r)
    ELSE [parsed |-> [value |-> VInt(t), description |-> IntStr(t) \o " U+00B0C"],
          ok |-> -40 <= t /\ t <= 85]

\* lines 195-201: re.search(r"%XSYSTEMMODE: (\d),(\d),(\d),(\d)", r)
_parse_xsystemmode(r, status) ==
    LET m == Leftmost({p \in 1..Len(r) :
                 /\ LitAt(r, p, "%XSYSTEMMODE: ")
                 /\ \A i \in 0..3 : DigitAt(r, p + 14 + 2 * i)
                 /\ \A i \in 0..2 : LitAt(r, p + 15 + 2 * i, ",")})
        g == [i \in 1..4 |-> DigitVal(Ch(r, m + 12 + 2 * i))]
        names == <<"LTE-M", "NB-IoT", "GNSS">>
        modes == SelectSeq(names, LAMBDA n : \E i \in 1..3 : names[i] = n /\ g[i] # 0) IN
    IF m = 0 THEN Unparseable(r)
    ELSE [parsed |-> [value |-> VTuple(g),
                      description |-> IF modes = <<>> THEN "(none)"
                                      ELSE JoinWith(", ", modes)],
          ok |-> g[1] = 1]

\* --- csv.reader on one string, default dialect, for rows whose quotes stand
\* around whole fields
LineBreaks == {"\n", "\r"}
\* the quote characters of s[:i]
QuotesUpTo(s, i) == Cardinality({j \in 1..i : Ch(s, j) = "\""})
\* position i is outside every quoted field
Outside(s, i) == Ch(s, i) # "\"" /\ QuotesUpTo(s, i) % 2 = 0
\* where the row ends: the first line break outside quotes, or past the end
RowEnd(s) ==
    LET bs == {i \in 1..Len(s) : Ch(s, i) \in LineBreaks /\ Outside(s, i)} IN
    IF bs = {} THEN Len(s) + 1 ELSE Leftmost(bs)
\* the k-th smallest position of ps
Nth(ps, k) == CHOOSE p \in ps : Cardinality({q \in ps : q < p}) = k - 1
\* s[lo..hi] of a field without the quotes around it; a doubled quote inside
\* a quoted field stands for one quote
RECURSIVE Unquoted(_, _, _)
Unquoted(s, lo, hi) ==
    IF lo > hi THEN ""
    ELSE IF lo = hi
    THEN (IF \/ Ch(s, lo) # "\""
             \/ (lo > 1 /\ Ch(s, lo - 1) = "\"" /\ QuotesUpTo(s, lo) % 2 = 1)
          THEN Ch(s, lo) ELSE "")
    ELSE Unquoted(s, lo, (lo + hi) \div 2) \o Unquoted(s, (lo + hi) \div 2 + 1, hi)
\* next(csv.reader([s])): the row of an empty string is []; the reader raises
\* _csv.Error for a line break outside quotes that is followed by anything
\* but line breaks
CsvRow(s) ==
    LET e == RowEnd(s)
        cs == {i \in 1..(e - 1) : Ch(s, i) = "," /\ Outside(s, i)}
        n == Cardinality(cs) IN
    [raises |-> \E j \in (e + 1)..Len(s) : Ch(s, j) \notin LineBreaks,
     row |-> IF s = "" THEN <<>>
             ELSE [k \in 1..(n + 1) |->
                      Unquoted(s, IF k = 1 THEN 1 ELSE Nth(cs, k - 1) + 1,
                                  IF k = n + 1 THEN e - 1 ELSE Nth(cs, k) - 1)]]

XmonPrefix == "%XMONITOR: "
\* line 233: int(x) if _INT_RE.fullmatch(x or "") else None
to_int(x) ==
    LET body == IF Ch(x, 1) \in {"-", "+"} THEN Sub(x, 2, Len(x)) ELSE x IN
    IF x # "" /\ body # "" /\ \A i \in 1..Len(body) : Ch(body, i) \in Digits
    THEN VInt(IntOf(x)) ELSE VNone
\* row[i] of row + [""] * 16, i counted from 0
Cell(row, i) == IF i + 1 <= Len(row) THEN row[i + 1] ELSE ""

\* line 226 raises what csv.reader raises
XmonRaises(reply) ==
    LitAt(reply, 1, XmonPrefix) /\ CsvRow(Sub(reply, Len(XmonPrefix) + 1, Len(reply))).raises

\* lines 204-257, for a reply line 226 accepts
_parse_xmonitor(reply, status) ==
    LET row == CsvRow(Sub(reply, Len(XmonPrefix) + 1, Len(reply))).row
        reg == to_int(Cell(row, 0))
        reg_i == IF reg.k = "none" \/ reg.n = 0 THEN -1 ELSE reg.n
        band_i == to_int(Cell(row, 6))
        rsrp_x == to_int(Cell(row, 10))
        snr_x == to_int(Cell(row, 11))
        rsrp == IF rsrp_x.k = "int" THEN VInt(rsrp_x.n - 140) ELSE VNone
        snr == IF snr_x.k = "int" THEN VInt(snr_x.n - 24) ELSE VNone
        parts == <<RegText(reg_i)>>
                 \o (IF band_i.k = "int" THEN <<"LTE band " \o IntStr(band_i.n)>> ELSE <<>>)
                 \o (IF rsrp.k = "int" THEN <<"RSRP " \o IntStr(rsrp.n) \o " dBm">> ELSE <<>>)
                 \o (IF snr.k = "int" THEN <<"SNR " \o IntStr(snr.n) \o ".0 dB">> ELSE <<>>) IN
    IF ~LitAt(reply, 1, XmonPrefix) THEN Unparseable(reply)
    ELSE [parsed |-> [value |-> VDict([f \in {"reg_status", "band", "rsrp_dbm", "snr_db"} |->
                                   CASE f = "reg_status" -> VInt(reg_i)
                                     [] f = "band" -> band_i
                                     [] f = "rsrp_dbm" -> rsrp
                                     [] f = "snr_db" -> snr]),
                      description |-> JoinWith(", ", parts)],
          ok |-> reg_i \in {1, 5} /\ (rsrp.k = "none" \/ rsrp.n > -110)]

\* parser(reply, status), line 325
CallParser(parser, reply, status) ==
    CASE parser = "_pass_if_ok" -> _pass_if_ok(reply, status)
      [] parser = "_verbatim" -> _verbatim(reply, status)
      [] parser = "_verbatim_strip_prefix" -> _verbatim_strip_prefix(reply, status)
      [] parser = "_parse_cereg" -> _parse_cereg(reply, status)
      [] parser = "_parse_xvbat" -> _parse_xvbat(reply, status)
      [] parser = "_parse_xtemp" -> _parse_xtemp(reply, status)
      [] parser = "_parse_xsystemmode" -> _parse_xsystemmode(reply, status)
      [] parser = "_parse_xmonitor" -> _parse_xmonitor(reply, status)
\* the call of line 325 raises
ParserRaises(parser, reply) == parser = "_parse_xmonitor" /\ XmonRaises(reply)

\* dict.get(k, default)
Get(d, k, default) == IF k \in DOMAIN d THEN d[k] ELSE default

\* the commands, parsers and display names callers register
RegCmds == {"AT+CFUN=1", "AT+FOO"}
RegParsers == {"_pass_if_ok", "_verbatim"}
RegNames == {"Foo", "Bar"}

\* register_parser() without the test of line 103
register_parser_NoTest(cmd, parser, name, override) ==
    /\ reg_log' = <<[cmd |-> cmd, parser |-> parser, name |-> name, override |-> override,
                     parsers |-> PARSER_REGISTRY, names |-> NAME_REGISTRY]>>
    /\ reg_ret' = "ok"
    /\ PARSER_REGISTRY' = SetItem(PARSER_REGISTRY, cmd, parser)
    /\ NAME_REGISTRY' = SetItem(NAME_REGISTRY, cmd, name)
    /\ UNCHANGED <<results, ar, pcall, files, exports, ghostVars, sendVars, startVars,
                   termVars, extVars, devVars, readerVars, writerVars, mainVars,
                   stopVars, now, histVars>>

\* lines 96-106
register_parser(cmd, parser, name, override) ==
    /\ reg_log' = <<[cmd |-> cmd, parser |-> parser, name |-> name, override |-> override,
                     parsers |-> PARSER_REGISTRY, names |-> NAME_REGISTRY]>>
    /\ IF ~override /\ cmd \in DOMAIN PARSER_REGISTRY
       THEN /\ reg_ret' = "ValueError"
            /\ UNCHANGED <<PARSER_REGISTRY, NAME_REGISTRY>>
       ELSE /\ reg_ret' = "ok"
            /\ PARSER_REGISTRY' = SetItem(PARSER_REGISTRY, cmd, parser)
            /\ NAME_REGISTRY' = SetItem(NAME_REGISTRY, cmd, name)
    /\ UNCHANGED <<results, ar, pcall, files, exports, ghostVars, sendVars, startVars,
                   termVars, extVars, devVars, readerVars, writerVars, mainVars,
                   stopVars, now, histVars>>

\* --- the rule engine on its own: values of every type a parser returns and
\* rules of every kind
XmonSample ==
    "%XMONITOR: 1,\"\",\"\",\"24201\",\"81AE\",7,20,\"0331C805\",281,6400,47,42"
RangeRule == Rule("", {"min", "max"}, VNone, <<>>, 4900, 5100)
RuleChoices ==
    << RangeRule,
       Rule("", {"max"}, VNone, <<>>, 0, 30),
       Rule("", {"equals"}, VInt(1), <<>>, 0, 0),
       Rule("", {"equals"}, VStr("5046"), <<>>, 0, 0),
       Rule("", {"allowed"}, VNone, <<VInt(1), VInt(5)>>, 0, 0),
       Rule("rsrp_dbm", {"min"}, VNone, <<>>, -105, 0),
       Rule("signal_dbm", {"min"}, VNone, <<>>, -95, 0),
       Rule("band", {"equals"}, VInt(20), <<>>, 0, 0) >>
ValueChoices ==
    << VInt(5046), VInt(4000), VInt(1), VStr("5046"), VStr("x"),
       VTuple(<<1, 0, 1, 0>>),
       _parse_xmonitor(XmonSample, NoStatus).parsed.value,
       _parse_xmonitor("%XMONITOR: 5", NoStatus).parsed.value >>
\* the rule lists of up to MaxRules rules, each named by the places of its
\* rules in RuleChoices
RuleLists == SeqsOf(1..Len(RuleChoices), 0, MaxRules)
RuleListOf(ks) == [i \in 1..Len(ks) |-> RuleChoices[ks[i]]]

\* one call of _apply_rules(val, rules), lines 110-142
ApplyRules(val, rules) ==
    /\ ar = <<>>
    /\ ar' = <<[val |-> val, rules |-> rules, ret |-> _apply_rules(val, rules)]>>
    /\ UNCHANGED <<PARSER_REGISTRY, NAME_REGISTRY, reg_ret, reg_log, results, pcall, files,
                   exports, ghostVars, sendVars, startVars, termVars, extVars, devVars,
                   readerVars, writerVars, mainVars, stopVars, now, histVars>>

\* --- parse()
\* the replies of the envelopes at_query() builds
ReplyTexts ==
    {"", "5046", "4000", "%XVBAT: 5046", "%XTEMP: 25", "+CEREG: 0,1",
     "%XSYSTEMMODE: 1,0,1,0", XmonSample, "%XMONITOR: 1\n+CEREG: 0,1"}
\* the envelopes at_query() builds: a reply and a status of "OK", "ERROR" or None
Envelopes ==
    [reply : ReplyTexts, status : {<<"OK">>, <<"ERROR">>, NoStatus}]
\* the commands of a report: one without a registered parser, the others with
\* each kind of built-in parser
ReportCmds ==
    {"AT+FOO", "AT+CFUN=1", "AT+CGMI", "AT%XICCID", "AT+CEREG?", "AT%XVBAT", "AT%XTEMP?",
     "AT%XSYSTEMMODE?", "AT%XMONITOR"}
\* a report is a dict: its commands, in the order of insertion, are distinct
Reports ==
    {r \in SeqsOf([cmd : ReportCmds, info : Envelopes], 0, MaxReport) :
        \A i, j \in 1..Len(r) : r[i].cmd = r[j].cmd => i = j}

\* limits: display name -> one rule (a dict) or a list of rules; None and {}
\* are the empty function
NoLimits == [n \in {} |-> <<>>]
OneRule(rule) == [form |-> "dict", rules |-> <<rule>>]
ListOf(rules) == [form |-> "list", rules |-> rules]
PatternNames ==
    {"Network registration", "System Voltage", "Modem temperature", "System mode",
     "Network monitor"}
LimitChoices ==
    << NoLimits,
       [n \in {"System Voltage", "AT+FOO"} |-> OneRule(RangeRule)],
       [n \in {"Network monitor", "Modem temperature"} |->
           IF n = "Network monitor"
           THEN ListOf(<<RuleChoices[6], RuleChoices[7]>>)
           ELSE OneRule(RuleChoices[2])],
       [n \in PatternNames \cup {"Manufacturer", "ICCID"} |-> ListOf(<<RuleChoices[4]>>)],
       [n \in {"System Voltage", "Network registration", "Manufacturer"} |->
           IF n = "System Voltage" THEN ListOf(<<>>)
           ELSE IF n = "Network registration" THEN ListOf(<<RuleChoices[5], RuleChoices[3]>>)
           ELSE OneRule(Rule("", {"equals"}, VStr("4000"), <<>>, 0, 0))] >>

\* lines 326-328: limits.get(name, []) if limits else [], a dict put in a list
RulesFor(limits, name) ==
    IF DOMAIN limits = {} THEN <<>>
    ELSE IF name \in DOMAIN limits THEN limits[name].rules
    ELSE <<>>

\* one turn of the loop of parse() that takes the verdict of the rules alone
TestResultOf_RulesOnly(cmd, info, limits) ==
    LET r == CallParser(Get(PARSER_REGISTRY, cmd, "_pass_if_ok"), info.reply, info.status)
        name == Get(NAME_REGISTRY, cmd, cmd)
        rules == RulesFor(limits, name)
        checked == _apply_rules(r.parsed.value, rules) IN
    [command |-> cmd, name |-> name, parsed |-> r.parsed, status |-> info.status,
     passed |-> IF rules # <<>> THEN checked.ok ELSE r.ok,
     reasons |-> IF rules # <<>> THEN checked.reasons ELSE <<>>]

\* one turn of the loop of parse() that passes whatever has no rules
TestResultOf_NoRulesPass(cmd, info, limits) ==
    LET r == CallParser(Get(PARSER_REGISTRY, cmd, "_pass_if_ok"), info.reply, info.status)
        name == Get(NAME_REGISTRY, cmd, cmd)
        rules == RulesFor(limits, name)
        checked == _apply_rules(r.parsed.value, rules) IN
    [command |-> cmd, name |-> name, parsed |-> r.parsed, status |-> info.status,
     passed |-> IF rules # <<>> THEN checked.ok /\ r.ok ELSE TRUE,
     reasons |-> IF rules # <<>> THEN checked.reasons ELSE <<>>]

\* one turn of the loop of parse() that reports the default verdict alone
TestResultOf_DefaultOnly(cmd, info, limits) ==
    LET r == CallParser(Get(PARSER_REGISTRY, cmd, "_pass_if_ok"), info.reply, info.status)
        name == Get(NAME_REGISTRY, cmd, cmd)
        rules == RulesFor(limits, name)
        checked == _apply_rules(r.parsed.value, rules) IN
    [command |-> cmd, name |-> name, parsed |-> r.parsed, status |-> info.status,
     passed |-> r.ok,
     reasons |-> IF rules # <<>> THEN checked.reasons ELSE <<>>]

\* one turn of the loop of parse() that looks for rules under the command
\* identifier before it looks under the display name
TestResultOf_ByCommand(cmd, info, limits) ==
    LET r == CallParser(Get(PARSER_REGISTRY, cmd, "_pass_if_ok"), info.reply, info.status)
        name == Get(NAME_REGISTRY, cmd, cmd)
        rules == IF cmd \in DOMAIN limits THEN RulesFor(limits, cmd)
                 ELSE RulesFor(limits, name)
        checked == _apply_rules(r.parsed.value, rules) IN
    [command |-> cmd, name |-> name, parsed |-> r.parsed, status |-> info.status,
     passed |-> IF rules # <<>> THEN checked.ok /\ r.ok ELSE r.ok,
     reasons |-> IF rules # <<>> THEN checked.reasons ELSE <<>>]

\* lines 323-333, one turn of the loop
TestResultOf(cmd, info, limits) ==
    LET reply == info.reply
        status == info.status
        parser == Get(PARSER_REGISTRY, cmd, "_pass_if_ok")
        r == CallParser(parser, reply, status)
        default_ok == r.ok
        name == Get(NAME_REGISTRY, cmd, cmd)
        rules == RulesFor(limits, name)
        checked == _apply_rules(r.parsed.value, rules)
        passed == IF rules # <<>> THEN checked.ok /\ default_ok ELSE default_ok
        why == IF rules # <<>> THEN checked.reasons ELSE <<>> IN
    [command |-> cmd, name |-> name, parsed |-> r.parsed, status |-> status,
     passed |-> passed, reasons |-> why]

\* lines 317-334: an error raised by a parser leaves parse(), and the results
\* collected so far are lost with it
parse(report, limits) ==
    /\ pcall = <<>>
    /\ IF \E i \in 1..Len(report) :
             ParserRaises(Get(PARSER_REGISTRY, report[i].cmd, "_pass_if_ok"),
                          report[i].info.reply)
       THEN /\ pcall' = <<[report |-> report, limits |-> limits, ret |-> "_csv.Error"]>>
            /\ UNCHANGED results
       ELSE /\ pcall' = <<[report |-> report, limits |-> limits, ret |-> "ok"]>>
            /\ results' = [i \in 1..Len(report) |->
                              TestResultOf(report[i].cmd, report[i].info, limits)]
    /\ UNCHANGED <<PARSER_REGISTRY, NAME_REGISTRY, reg_ret, reg_log, ar, files, exports,
                   ghostVars, sendVars, startVars, termVars, extVars, devVars,
                   readerVars, writerVars, mainVars, stopVars, now, histVars>>

\* --- export_csv()
\* lines 277-285
Header == <<"command", "name", "passed", "status", "description", "value", "reasons">>
\* d.get("status") or ""
StatusText(status) == IF status = NoStatus THEN "" ELSE status[1]

\* the text of s[lo..hi] inside the quotes of json.dumps(s, ensure_ascii=False)
RECURSIVE JsonEscaped(_, _, _)
JsonEscaped(s, lo, hi) ==
    IF lo > hi THEN ""
    ELSE IF lo = hi
    THEN (CASE Ch(s, lo) = "\n" -> "\\n"
            [] Ch(s, lo) = "\"" -> "\\\""
            [] Ch(s, lo) = "\\" -> "\\\\"
            [] OTHER -> Ch(s, lo))
    ELSE JsonEscaped(s, lo, (lo + hi) \div 2) \o JsonEscaped(s, (lo + hi) \div 2 + 1, hi)
\* json.dumps(value, ensure_ascii=False), line 295
Json(v) ==
    CASE v.k = "str" -> "\"" \o JsonEscaped(v.s, 1, Len(v.s)) \o "\""
      [] v.k = "int" -> IntStr(v.n)
      [] v.k = "none" -> "null"
      [] v.k = "tuple" ->
            "[" \o JoinWith(", ", [i \in 1..Len(v.t) |-> IntStr(v.t[i])]) \o "]"
      [] v.k = "dict" ->
            "{" \o JoinWith(", ", [i \in 1..Len(XmonKeys) |->
                    "\"" \o XmonKeys[i] \o "\": " \o
                    (IF v.d[XmonKeys[i]].k = "int" THEN IntStr(v.d[XmonKeys[i]].n)
                     ELSE "null")]) \o "}"

\* lines 288-297: the row of one result
DataRow(r) ==
    << r.command, r.name, IF r.passed THEN "PASS" ELSE "FAIL", StatusText(r.status),
       r.parsed.description, Json(r.parsed.value), JoinWith("; ", r.reasons) >>
\* lines 276-297
_results_to_csv_rows(rs) == <<Header>> \o [i \in 1..Len(rs) |-> DataRow(rs[i])]

\* the results callers export, as parse() returns them: one of a built-in
\* parser, one of an unknown command, and one for a command a caller named
\* "command"
ExportChoices ==
    << [command |-> "AT%XVBAT", name |-> "System Voltage",
        parsed |-> [value |-> VInt(5046), description |-> "5.05 V"],
        status |-> <<"OK">>, passed |-> TRUE, reasons |-> <<>>],
       [command |-> "AT+FOO", name |-> "AT+FOO",
        parsed |-> [value |-> VStr("x"), description |-> "x"],
        status |-> NoStatus, passed |-> TRUE, reasons |-> <<>>],
       [command |-> "command", name |-> "command",
        parsed |-> [value |-> VStr(""), description |-> "(no reply)"],
        status |-> <<"ERROR">>, passed |-> FALSE, reasons |-> <<>>] >>
\* the lists of results of one call, each named by the places of its results
\* in ExportChoices
ExportLists == SeqsOf(1..Len(ExportChoices), 0, MaxReport)
ExportListOf(ks) == [i \in 1..Len(ks) |-> ExportChoices[ks[i]]]
Paths == {"daily_log.csv", "other.csv"}
\* open modes that write: "a" appends, "w" empties the file when it is opened
Modes == {"a", "w"}

\* line 312: the rows the loop writes
NotCommand(row) == row[1] # "command"
\* lines 300-314.  A file is the sequence of the rows written to it; it has
\* size 0 when it has no row.
export_csv(path, rs, fmode) ==
    /\ Len(exports) < MaxExports
    /\ LET write_header == path \notin DOMAIN files \/ files[path] = <<>>
           opened == IF fmode = "w" \/ path \notin DOMAIN files THEN <<>> ELSE files[path]
           rows == _results_to_csv_rows(rs)
           written == (IF write_header THEN <<rows[1]>> ELSE <<>>)
                      \o SelectSeq(rows, NotCommand) IN
       files' = SetItem(files, path, opened \o written)
    /\ exports' = Append(exports, [path |-> path, results |-> rs, mode |-> fmode])
    /\ UNCHANGED <<PARSER_REGISTRY, NAME_REGISTRY, reg_ret, reg_log, results, ar, pcall,
                   ghostVars, sendVars, startVars, termVars, extVars, devVars,
                   readerVars, writerVars, mainVars, stopVars, now, histVars>>

\* the calls into at_parser.py
at_parser ==
    \/ \E cmd \in RegCmds, parser \in RegParsers, name \in RegNames, override \in BOOLEAN :
          register_parser(cmd, parser, name, override)
    \/ \E v \in 1..Len(ValueChoices), ks \in RuleLists :
          ApplyRules(ValueChoices[v], RuleListOf(ks))
    \/ \E report \in Reports, k \in 1..Len(LimitChoices) : parse(report, LimitChoices[k])
    \/ \E path \in Paths, ks \in ExportLists, fmode \in Modes :
          export_csv(path, ExportListOf(ks), fmode)

\* ------------------------------------------------------------------- Next
\* the device writes whole lines
DeviceLines == \E text \in DevTexts : DevLine(text, Len(text) + 1)
\* the device writes any bytes, a line in one or two pieces
DeviceBytes ==
    \/ \E text \in RawTexts : \E k \in 1..(Len(text) + 1) : DevLine(text, k)
    \/ DevFlush

CallAny ==
    \/ \E c \in Cmds : Send(c)
    \/ \E c \in Cmds : \E t \in Timeouts : \E u \in Untils : CallQuery(c, t, u)
    \/ \E c \in Cmds : \E t \in Timeouts : CallAtQuery(c, t)
    \/ \E cs \in SeqsOf(Cmds, 0, MaxSends) : \E t \in Timeouts :
           \E p \in BOOLEAN : CallBatch(cs, t, p)

\* send() followed one write() at a time, on both sending threads
send ==
    \/ (\E c \in Cmds \cup LongLines : CallSend(c)) \/ QSendEnter
    \/ MSendChunk \/ MSendChunkFail \/ MSendReturn
    \/ WSendEnter \/ WSendChunk \/ WSendChunkFail \/ WSendReturn

\* The whole terminal: every thread, every call, any device.
Next ==
    \/ Start \/ StartAgain \/ StartAgainConsole \/ CallAny \/ send \/ query \/ batch_at_query \/ Tick
    \/ _rtt_reader \/ later_rtt_readers \/ _stdin_writer \/ stop
    \/ DeviceLines \/ DeviceBytes \/ Echo
    \/ at_parser

Spec == Init /\ [][Next]_vars

\* The specifications below are runs of Spec: each keeps the threads and the
\* calls its claims are about, so that TLC explores it exhaustively.

\* --- the query engine: queries of one caller against the reader and a device
InitQ == Init /\ own_session /\ ~attach_console
NextQ ==
    \/ Start
    \/ \E t \in Timeouts : CallQuery("AT", t, "none")
    \/ CallAtQuery("AT", 1)
    \/ query \/ Tick \/ _rtt_reader \/ DeviceLines
SpecQ == InitQ /\ [][NextQ]_vars

\* --- at_query() calls alone, against a device that writes whole lines
NextT ==
    \/ Start
    \/ \E c \in Cmds : CallAtQuery(c, 1)
    \/ query \/ Tick \/ _rtt_reader
    \/ \E text \in DevTexts : DevLine(text, Len(text) + 1)
SpecT == InitQ /\ [][NextT]_vars

\* --- the Line Assembler: the reader against a device writing any bytes
NextR ==
    \/ Start
    \/ Send("AT")
    \/ _rtt_reader \/ DeviceBytes
    \/ StopBegin \/ StopJoin \/ StopFinish
SpecR == InitQ /\ [][NextR]_vars

\* the same under fair scheduling of the reader thread: the thread is not
\* starved, and the observer it calls returns
SpecRL == InitQ /\ [][NextR]_vars /\ WF_vars(_rtt_reader)

\* --- the batch executor: one batch on a fresh channel, with a timeout of one
\* tick, against a device that answers with status lines only.  The two
\* command identifiers are interchangeable, so a batch starts with "AT".
BatchInputs == {cs \in SeqsOf(Cmds, 0, MaxSends) : cs = <<>> \/ cs[1] = "AT"}
NextB ==
    \/ Start
    \/ \E cs \in BatchInputs : \E p \in BOOLEAN :
           downlog = <<>> /\ CallBatch(cs, 1, p)
    \/ query \/ batch_at_query \/ Tick \/ _rtt_reader
    \/ \E text \in StatusTexts : DevLine(text, Len(text) + 1)
SpecB == InitQ /\ [][NextB]_vars

\* --- the lifecycle: start, the reader, the stdin mirror and stop()
NextS ==
    \/ Start
    \/ _rtt_reader \/ _stdin_writer \/ stop
    \/ DeviceLines
SpecS == Init /\ [][NextS]_vars

\* --- one query on a started terminal, alone or after an earlier send() (whose
\* answer may sit in the queue, in the channel or still be to come), with
\* stop() called once from another thread; the calling thread keeps running
\* and the clock keeps advancing
NextL ==
    \/ Start
    \/ down # None /\ downlog = <<>> /\ Send("AT")
    \/ \E t \in Timeouts : \E u \in Untils :
           down # None /\ qlog = <<>> /\ CallQuery("AT", t, u)
    \/ query \/ Tick \/ _rtt_reader \/ DeviceLines
    \/ stops = <<>> /\ StopBegin
    \/ StopJoin \/ StopFinish
SpecL == InitQ /\ [][NextL]_vars /\ WF_vars(query) /\ WF_vars(Tick)

\* --- calls made around a stop(): a terminal on a session supplied by the
\* caller, which stop() leaves open, with one stop() from another thread
InitK == Init /\ ~own_session /\ ~attach_console
NextK ==
    \/ Start
    \/ CallQuery("AT", 1, "at")
    \/ CallAtQuery("AT", 1)
    \/ \E cs \in BatchInputs : CallBatch(cs, 1, FALSE)
    \/ query \/ batch_at_query \/ Tick \/ _rtt_reader
    \/ \E text \in StatusTexts : DevLine(text, Len(text) + 1)
    \/ stops = <<>> /\ StopBegin
    \/ StopJoin \/ StopFinish
SpecK == InitK /\ [][NextK]_vars

\* --- the down channel with two writers: the owner of the terminal and the
\* stdin mirror both send, chunk by chunk, and a write() may fail
InitW == Init /\ own_session /\ attach_console
NextW ==
    \/ Start
    \/ \E c \in {"AT", "L1020"} : CallSend(c)
    \/ MSendChunk \/ MSendChunkFail \/ MSendReturn
    \/ WCheck \/ (\E c \in Cmds : WInputLine(c))
    \/ WSendEnter \/ WSendChunk \/ WSendChunkFail \/ WSendReturn
SpecW == InitW /\ [][NextW]_vars

\* --- write errors: every kind of call of the owner of the terminal, chunk by
\* chunk, with write() calls that may fail.  Queries are made with timeout=0,
\* so that they return without waiting for a reply.
NextX ==
    \/ Start
    \/ \E c \in {"AT", "L1020"} : CallSend(c)
    \/ CallQuery("L1020", 0, "none")
    \/ CallAtQuery("L1020", 0)
    \/ \E cs \in {<<"L1020">>, <<"AT", "L1020">>} : CallBatch(cs, 0, FALSE)
    \/ QDrain \/ QSendEnter \/ MSendChunk \/ MSendChunkFail \/ MSendReturn
    \/ QLoop \/ QReturn \/ batch_at_query
SpecX == InitQ /\ [][NextX]_vars

\* --- framing and loop-back: one send() of a line of any length on a started
\* terminal whose device echoes every write to the up channel
NextF ==
    \/ Start
    \/ \E c \in Cmds \cup LongLines : ops = 0 /\ CallSend(c)
    \/ MSendChunk \/ MSendReturn
    \/ Echo \/ _rtt_reader
SpecF == InitQ /\ [][NextF]_vars

\* --- start() and stop() called again and again on a terminal without
\* console, on a session of its own or on one supplied by the caller
InitE == Init /\ ~attach_console
NextE ==
    \/ Start \/ StartAgain
    \/ Send("AT")
    \/ _rtt_reader \/ later_rtt_readers
    \/ StopBegin \/ StopJoin \/ StopFinish
    \/ DeviceLines
SpecE == InitE /\ [][NextE]_vars

\* --- the parser registry of at_parser.py: registrations in any order
NextP ==
    \E cmd \in RegCmds, parser \in RegParsers, name \in RegNames, override \in BOOLEAN :
        register_parser(cmd, parser, name, override)
SpecP == InitQ /\ [][NextP]_vars

\* --- parse() of at_parser.py: one call on the registries of the import
NextV ==
    /\ pcall = <<>>
    /\ \E report \in Reports, k \in 1..Len(LimitChoices) : parse(report, LimitChoices[k])
SpecV == InitQ /\ [][NextV]_vars

\* --- the rule engine of at_parser.py: one call of _apply_rules()
NextA ==
    /\ ar = <<>>
    /\ \E v \in 1..Len(ValueChoices), ks \in RuleLists :
          ApplyRules(ValueChoices[v], RuleListOf(ks))
SpecA == InitQ /\ [][NextA]_vars

\* --- export_csv() of at_parser.py: calls in any order on two paths
NextC ==
    \E path \in Paths, ks \in ExportLists, fmode \in Modes :
          export_csv(path, ExportListOf(ks), fmode)
SpecC == InitQ /\ [][NextC]_vars

\* --- the network-monitor parser: one parse() call on the envelope of
\* AT%XMONITOR, for replies with every registration code and with an RSRP
\* index that is absent, below, at and above the threshold
\* the fields of a reply the parser reads; a short reply ends after the code
XmonFields ==
    [reg : {"0", "1", "2", "3", "4", "5"}, band : {"20", ""},
     rsrp : {"", "29", "30", "31", "47"}, short : BOOLEAN]
XmonReply(f) ==
    IF f.short THEN XmonPrefix \o f.reg
    ELSE XmonPrefix \o f.reg \o ",\"\",\"\",\"24201\",\"81AE\",7," \o f.band
            \o ",\"0331C805\",281,6400," \o f.rsrp \o ",42"
NextM ==
    /\ pcall = <<>>
    /\ \E f \in XmonFields, status \in {<<"OK">>, <<"ERROR">>, NoStatus} :
          parse(<<[cmd |-> "AT%XMONITOR",
                   info |-> [reply |-> XmonReply(f), status |-> status]]>>, NoLimits)
SpecM == InitQ /\ [][NextM]_vars

\* --- calls before start(): every kind of call of the owner of the terminal,
\* before and after start(), chunk by chunk; queries are made with timeout=0
NextN ==
    \/ Start
    \/ \E c \in Cmds : CallSend(c)
    \/ \E c \in Cmds, u \in Untils : CallQuery(c, 0, u)
    \/ \E c \in Cmds : CallAtQuery(c, 0)
    \/ \E cs \in SeqsOf(Cmds, 0, MaxSends), p \in BOOLEAN : CallBatch(cs, 0, p)
    \/ QDrain \/ QSendEnter \/ MSendChunk \/ MSendReturn
    \/ QLoop \/ QReturn \/ batch_at_query
SpecN == InitQ /\ [][NextN]_vars

\* --- registrations followed by one parse(), as step_write_certs() makes
\* them: commands registered under display names, and limits keyed by command
\* identifiers and by display names
\* nrf_flash_tool.py line 249: {"equals": "OK"}
EqualsOk == Rule("", {"equals"}, VStr("OK"), <<>>, 0, 0)
KeyedLimits ==
    << [n \in {"AT+FOO"} |-> OneRule(EqualsOk)],
       [n \in {"Foo"} |-> OneRule(RuleChoices[4])],
       [n \in {"AT+FOO", "Foo"} |->
           IF n = "Foo" THEN OneRule(RuleChoices[4]) ELSE OneRule(EqualsOk)],
       [n \in {"AT+CFUN=1", "Bar"} |-> OneRule(EqualsOk)] >>
KeyedReports ==
    {r \in SeqsOf([cmd : RegCmds, info : [reply : {"", "5046"},
                                          status : {<<"OK">>, <<"ERROR">>}]],
                  1, MaxReport) :
        \A i, j \in 1..Len(r) : r[i].cmd = r[j].cmd => i = j}
NextG ==
    /\ pcall = <<>>
    /\ \/ \E cmd \in RegCmds, parser \in RegParsers, name \in RegNames, override \in BOOLEAN :
              register_parser(cmd, parser, name, override)
       \/ \E report \in KeyedReports, k \in 1..Len(KeyedLimits) :
              parse(report, KeyedLimits[k])
SpecG == InitQ /\ [][NextG]_vars

\* --- a terminal restarted after its stop flag was set: a console terminal
\* on a session of the caller, one send() before the stop, end of input or
\* ":quit" on the console, stop(), start() again, and queries after that
InitY == Init /\ ~own_session /\ attach_console
NextY ==
    \/ Start
    \/ stops # <<>> /\ spc = "idle" /\ StartAgainConsole
    \/ downlog = <<>> /\ Send("AT")
    \/ \E u \in Untils : xr # <<>> /\ CallQuery("AT", 1, u)
    \/ query \/ Tick
    \/ _rtt_reader \/ later_rtt_readers
    \/ WCheck \/ WInputEOF \/ WInputQuit
    \/ stop
    \/ DeviceLines
SpecY == InitY /\ [][NextY]_vars

\* ================================================================== claims

\* C1: every line of a returned query's result was emitted by the device in
\* answer to that query's own command; no line of the answer to an earlier
\* command appears in the result of a later query.
C1_OnlyOwnReply ==
    \A i \in 1..Len(qlog) : \A j \in 1..Len(qlog[i].lines) :
        dev_owner[qlog[i].lines[j].id] = qlog[i].sent

\* C2: every line that is in the FIFO queue when query() is invoked is removed
\* before the command is sent, and appears in no query's result.
C2_StaleLinesDrained ==
    /\ mpc \in {"q_send", "q_loop", "q_get", "q_ret"} => Ids(rx_q) \cap stale = {}
    /\ Ids(replies) \cap stale = {}
    /\ \A i \in 1..Len(qlog) : Ids(qlog[i].lines) \cap stale = {}

\* a query found lines in the queue, drained them, and has collected others
C2_Witness ==
    /\ stale # {}
    /\ mpc = "q_ret"
    /\ replies # <<>>

\* the positions of the newlines of a byte stream
NewlineAt(bs) == {i \in 1..Len(bs) : bs[i] = "\n"}
\* the position of its k-th newline (0 for k = 0)
KthNewline(bs, k) ==
    IF k = 0 THEN 0
    ELSE CHOOSE i \in NewlineAt(bs) : Cardinality({j \in NewlineAt(bs) : j <= i}) = k
\* the newline-delimited lines of a byte stream, decoded
StreamLines(bs) ==
    [k \in 1..Cardinality(NewlineAt(bs)) |->
        Decode(SubSeq(bs, KthNewline(bs, k - 1) + 1, KthNewline(bs, k) - 1))]

\* C3: the lines put on the queue and the lines passed to the observer are, in
\* order, the newline-delimited lines of the bytes received; each line is put
\* before it is observed and observed before the next line is put.
C3_ArrivalOrder ==
    /\ Texts(putLog) = SubSeq(StreamLines(rx_bytes), 1, Len(putLog))
    /\ obsLog = SubSeq(Texts(putLog), 1, Len(obsLog))
    /\ Len(putLog) - Len(obsLog) = (IF rpc = "obs" THEN 1 ELSE 0)
    /\ rpc \in {"check", "read", "done"} => Len(putLog) = Len(StreamLines(rx_bytes))
    /\ rx_q = putLog

\* two different lines that arrived in one read have been published
C3_Witness ==
    /\ Len(obsLog) = 2
    /\ obsLog[1] # obsLog[2]
    /\ Cardinality(NewlineAt(rx_bytes)) = 2
    /\ rpc = "check"

\* the lines of ls on which the AT terminator predicate is true
TermAt(ls) == {j \in 1..Len(ls) : AtUntil(ls[j].text)}

\* C4: with a terminator predicate, collection stops at the first line on which
\* the predicate is true: a result holds at most one such line, as its last.
C4_StopsAtTerminator ==
    /\ \A i \in 1..Len(qlog) :
          qlog[i].until = "at" => TermAt(qlog[i].lines) \subseteq {Len(qlog[i].lines)}
    /\ (q_until = "at" /\ mpc \in {"q_loop", "q_get"}) => TermAt(replies) = {}
    /\ (q_until = "at" /\ mpc = "q_ret") => TermAt(replies) \subseteq {Len(replies)}

\* a query with a terminator returned two lines, the terminator last
C4_Witness ==
    \E i \in 1..Len(qlog) :
        /\ qlog[i].until = "at"
        /\ Len(qlog[i].lines) = 2
        /\ TermAt(qlog[i].lines) = {2}

\* C5: every query() call on a started terminal returns, without raising,
\* whatever the device does and whether or not stop() runs meanwhile.
C5_QueryReturns ==
    /\ (mpc # "idle") ~> (mpc = "idle" /\ last_ret = "query")
    /\ [](last_ret # "RuntimeError")

\* a query with a timeout returned the empty list at its deadline: the device
\* never replied, and stop() has run
C5_Witness ==
    /\ mpc = "idle" /\ last_ret = "query"
    /\ q_timeout = 1 /\ now = deadline
    /\ replies = <<>> /\ dev_owner = <<>>
    /\ Len(stops) >= 1 /\ sess_state = "closed"

\* at_query() has returned; replies still holds the lines it collected
AtReturned == mpc = "idle" /\ last_ret = "at"
\* the first line of ls whose stripped text is a status token, 0 if none
FirstStatus(ls) ==
    IF \E j \in 1..Len(ls) : Strip(ls[j]) \in AT_TERMINATORS
    THEN CHOOSE j \in 1..Len(ls) :
            /\ Strip(ls[j]) \in AT_TERMINATORS
            /\ \A h \in 1..(j - 1) : Strip(ls[h]) \notin AT_TERMINATORS
    ELSE 0
\* ls without its k-th element
Without(ls, k) == [j \in 1..(Len(ls) - (IF k = 0 THEN 0 ELSE 1)) |->
                    IF k = 0 \/ j < k THEN ls[j] ELSE ls[j + 1]]
StripAll(ls) == [j \in 1..Len(ls) |-> Strip(ls[j])]
StatusOf(ls) == IF FirstStatus(ls) = 0 THEN NoStatus ELSE Strip(ls[FirstStatus(ls)])

\* C6 as stated: status is the first collected line whose stripped text is OK
\* or ERROR (None if there is none), and reply is the join, in arrival order,
\* of all the other collected lines.
C6_ReplyJoinsOtherLines ==
    AtReturned =>
        /\ last_env.status = StatusOf(Texts(replies))
        /\ last_env.reply = Join(Without(Texts(replies), FirstStatus(Texts(replies))))

\* C6 as amended: status is the stripped text of the first collected line whose
\* stripped text is OK or ERROR (None if there is none), and reply is the
\* join, in arrival order, of the stripped texts of all the other lines.
C6_ReplyJoinsStrippedLines ==
    AtReturned =>
        /\ last_env.status = StatusOf(Texts(replies))
        /\ last_env.reply =
              Join(StripAll(Without(Texts(replies), FirstStatus(Texts(replies)))))

\* the device answered "5046" then "OK" (each line ending in CR LF)
C6_Witness ==
    /\ AtReturned
    /\ Texts(replies) = << <<"5046", "\r">>, <<"OK", "\r">> >>
    /\ last_env = [reply |-> <<"5046">>, status |-> <<"OK">>]

\* batch_at_query() has returned
BatchReturned == mpc = "idle" /\ last_ret = "batch"
Range(f) == {f[x] : x \in DOMAIN f}
\* the last occurrence of command c in the input
LastIndex(cs, c) == CHOOSE i \in 1..Len(cs) : cs[i] = c /\ \A j \in (i + 1)..Len(cs) : cs[j] # c

\* C7: a batch runs every command, whatever the outcome of the others, and
\* returns one entry per distinct command, mapped to the envelope of that
\* command's own exchange; a batch in progress is never stuck.
C7_OneEntryPerCommand ==
    /\ BatchReturned =>
          /\ DOMAIN result = Range(commands)
          /\ Len(qlog) = Len(commands)
          /\ Len(downlog) = Len(commands)
          /\ \A i \in 1..Len(commands) : downlog[i].cmd = commands[i] /\ qlog[i].sent = i
          /\ \A c \in DOMAIN result :
                result[c] = [reply |-> Join(StripAll(Without(Texts(qlog[LastIndex(commands, c)].lines),
                                              FirstStatus(Texts(qlog[LastIndex(commands, c)].lines))))),
                             status |-> StatusOf(Texts(qlog[LastIndex(commands, c)].lines))]
    /\ mode = "batch" => ENABLED (query \/ batch_at_query \/ Tick)

\* a batch of two commands: the first ended in ERROR, the second timed out
C7_Witness ==
    /\ BatchReturned
    /\ Len(commands) = 2 /\ commands[1] # commands[2]
    /\ result[commands[1]].status = <<"ERROR">>
    /\ result[commands[2]].status = NoStatus

\* the events of a batch of n commands
RECURSIVE BatchEvents(_, _)
BatchEvents(n, p) ==
    IF n = 0 THEN <<>>
    ELSE BatchEvents(n - 1, p)
         \o (IF p THEN << <<"progress", n>> >> ELSE <<>>)
         \o << <<"send", n>>, <<"done", n>>, <<"dwell", n>> >>
IsPrefix(a, b) == Len(a) <= Len(b) /\ a = SubSeq(b, 1, Len(a))

\* C8: a batch handles its commands in input order, one exchange at a time:
\* progress(i), send(i), end of query i, dwell, and only then progress(i+1);
\* every command gets its dwell and exactly one progress call.
C8_BatchOrder ==
    /\ (mode = "batch" \/ BatchReturned) =>
          /\ IsPrefix(events, BatchEvents(Len(commands), has_progress))
          /\ \A i \in 1..Len(downlog) : downlog[i].cmd = commands[i]
    /\ BatchReturned => events = BatchEvents(Len(commands), has_progress)

\* a batch of two with a progress callback: the first command ended in ERROR,
\* the second timed out, and all eight events happened
C8_Witness ==
    /\ BatchReturned /\ has_progress
    /\ Len(commands) = 2 /\ Len(events) = 8
    /\ qlog[1].lines # <<>> /\ StatusOf(Texts(qlog[1].lines)) = <<"ERROR">>
    /\ qlog[2].lines = <<>>

\* C9: over any sequence of stop() calls the session is closed at most once
\* and each background thread is joined at most once.
C9_StopIdempotent ==
    /\ closes <= 1
    /\ \A t \in DOMAIN joins : joins[t] <= 1

\* stop() returned twice on a started terminal that owns its session
C9_Witness ==
    /\ Len(stops) = 2 /\ stops[1] /\ stops[2]
    /\ closes = 1
    /\ joins["rtt-reader"] = 1

\* C10: for a terminal that created its own session, whenever stop() has
\* returned on a started terminal the session is closed and the reference
\* to it cleared.
C10_ClosedAfterStop ==
    (own_session /\ \E i \in 1..Len(stops) : stops[i]) =>
        (session = None /\ sess_state = "closed")

\* C11: once stop() has returned on a started terminal no background task is
\* running: the reader thread has exited and so has, when the console is
\* attached, the stdin thread.
C11_TasksExited ==
    (\E i \in 1..Len(stops) : stops[i]) =>
        /\ rpc = "done"
        /\ attach_console => wpc = "done"

\* C12: a query(), at_query() or batch_at_query() call invoked when the stop
\* flag is set writes no command on the down channel.
C12_NoQueryAfterStop ==
    [][callFlag => \A i \in (Len(downlog) + 1)..Len(downlog') : downlog'[i].by # "main"]_vars

\* C13: the write() calls of one send() are contiguous on the down channel: no
\* write of another send() falls between two of them.
C13_WritesContiguous ==
    \A i \in 1..Len(wlog) : \A k \in i..Len(wlog) :
        wlog[i].op = wlog[k].op => \A j \in i..k : wlog[j].op = wlog[i].op

\* the write() calls of send() number op, in write order
OpWrites(op) == SelectSeq(wlog, LAMBDA w : w.op = op)
\* the bytes of a sequence of write() calls, concatenated
RECURSIVE ConcatBytes(_)
ConcatBytes(ws) ==
    IF ws = <<>> THEN <<>> ELSE WBytes(Head(ws)) \o ConcatBytes(Tail(ws))

\* C16: for every send(line) that returned, the chunks written, concatenated
\* in write order, are the encoded line followed by the 5-byte sentinel; each
\* chunk is non-empty, at most 1024 bytes and starts where the one before
\* ended; the value returned is len(encoded line) + 5.
C16_SendWritesFrame ==
    \A e \in 1..Len(sendlog) :
        LET c == sendlog[e].cmd
            ws == OpWrites(sendlog[e].op) IN
        /\ ConcatBytes(ws) = Encode(Chars(c)) \o <<"\r", "\n", ".", "\r", "\n">>
        /\ \A j \in 1..Len(ws) :
              /\ ws[j].ok
              /\ ws[j].len >= 1 /\ ws[j].len <= CHUNK
              /\ ws[j].off = IF j = 1 THEN 0 ELSE ws[j - 1].off + ws[j - 1].len
        /\ sendlog[e].ret = Len(Encode(Chars(c))) + 5

\* a line of 2044 characters was sent in three chunks: 1024, 1024 and 1 bytes
C16_Witness ==
    /\ Len(sendlog) = 1 /\ sendlog[1].cmd = "L2044" /\ sendlog[1].ret = 2049
    /\ Len(wlog) = 3 /\ wlog[3].len = 1

\* the loop-back is complete: send() has returned, every write has been
\* echoed, and the reader has split all it has read
LoopedBack ==
    /\ Len(sendlog) = 1
    /\ echoed = Len(wlog) /\ upchan = <<>>
    /\ rpc \in {"check", "read"}
    /\ Len(rx_bytes) = Len(Payload(sendlog[1].cmd))

\* C17 as stated: the lines the loop-back assembler publishes for the bytes
\* written by send(line) are the original line, and nothing else.
C17_RoundTrip ==
    LoopedBack => Texts(putLog) = <<Chars(sendlog[1].cmd)>>

\* C17 as amended: the published lines, each followed by a newline, concatenate
\* to the line followed by the sentinel, whatever the chunk boundaries; for a
\* line without a newline they are two, the line followed by CR and ".\r".
C17_LinesOfFrame ==
    LoopedBack =>
        LET t == Chars(sendlog[1].cmd) IN
        /\ Join(Texts(putLog)) \o <<"\n">> = t \o <<"\r", "\n", ".", "\r", "\n">>
        /\ (\A i \in 1..Len(t) : t[i] # "\n") =>
              Texts(putLog) = << t \o <<"\r">>, <<".", "\r">> >>
        /\ buf = <<>>

\* a line with a two-byte character came back as itself followed by CR, and
\* the sentinel as a second line
C17_Witness ==
    /\ LoopedBack
    /\ sendlog[1].cmd = "E9"
    /\ Texts(putLog) = << <<"A", "U+00E9", "\r">>, <<".", "\r">> >>

\* C18: a write() that raised is the last write of its send(): the chunk is
\* not written again and no later chunk follows; that send() never returns a
\* count, and the error ends the outermost call of the calling thread,
\* whichever it is, leaving no query result and no batch result.
C18_WriteErrorPropagates ==
    /\ [](\A k \in Failed :
            /\ \A j \in 1..Len(wlog) :
                  (j # k /\ wlog[j].op = wlog[k].op) =>
                      (j < k /\ wlog[j].ok /\ wlog[j].off < wlog[k].off)
            /\ \A e \in 1..Len(sendlog) : sendlog[e].op # wlog[k].op
            /\ \E r \in 1..Len(raised) :
                  raised[r].op = wlog[k].op /\ raised[r].by = wlog[k].by)
    /\ [][(Failed' # Failed /\ wlog'[Len(wlog')].by = "main") =>
            /\ mode \in {"send", "query", "at", "batch"}
            /\ raised' = Append(raised, [op |-> s_op["main"], by |-> "main", mode |-> mode])
            /\ mpc' = "idle" /\ mode' = "none" /\ last_ret' = "WriteError"
            /\ qlog' = qlog /\ sendlog' = sendlog /\ downlog' = downlog]_vars

\* the second chunk of the second command of a batch failed: the error left
\* batch_at_query() after the first command had been sent and queried
C18_Witness ==
    /\ mpc = "idle" /\ last_ret = "WriteError"
    /\ Len(raised) = 1 /\ raised[1].mode = "batch"
    /\ Len(commands) = 2 /\ bi = 2 /\ Len(qlog) = 1
    /\ wlog[Len(wlog)].off = CHUNK /\ ~wlog[Len(wlog)].ok

\* the reader threads that have been started and have not returned
LiveReaders ==
    (IF rpc \in {"check", "read", "split", "obs"} THEN 1 ELSE 0)
    + Cardinality({k \in 1..Len(xr) : xr[k].pc # "done"})

\* C14: after any sequence of start() and stop() calls at most one reader
\* thread of the terminal is running.
C14_SingleReader == LiveReaders <= 1

\* the lines handed to queries so far, in the order they were handed out: the
\* results of the queries that returned, then what the query in progress holds
RECURSIVE HandedOut(_)
HandedOut(i) == IF i = 0 THEN <<>> ELSE HandedOut(i - 1) \o qlog[i].lines
Consumed ==
    HandedOut(Len(qlog)) \o (IF mpc \in {"q_loop", "q_get", "q_ret"} THEN replies ELSE <<>>)

\* C15: a line put on the queue is handed to at most one query and at most
\* once, and a line put while no query was in progress is never handed to a
\* query: the next query removes it before it sends its command.
C15_ConsumedOnce ==
    LET got == Consumed
        put == Range(putLog) IN
    /\ \A a, b \in 1..Len(got) : got[a].id = got[b].id => a = b
    /\ Ids(got) \cap idlePut = {}
    /\ mpc \in {"q_send", "q_loop", "q_get", "q_ret"} => idlePut = {}
    /\ \A a \in 1..Len(got) : got[a] \in put

\* a query has returned with lines; a line put after it returned is alone on
\* the queue when the next query starts to drain
C15_Witness ==
    /\ mpc = "q_drain"
    /\ Len(qlog) = 1 /\ qlog[1].lines # <<>>
    /\ rx_q # <<>> /\ Ids(rx_q) \subseteq idlePut

\* C19: register_parser(cmd, ...) for a command that has an entry raises when
\* override is false and leaves both registries as they were; otherwise it
\* sets the parser and the display name of cmd and of no other command.
C19_RegisterParser ==
    \A i \in 1..Len(reg_log) :
        LET c == reg_log[i] IN
        IF ~c.override /\ c.cmd \in DOMAIN c.parsers
        THEN /\ reg_ret = "ValueError"
             /\ PARSER_REGISTRY = c.parsers /\ NAME_REGISTRY = c.names
        ELSE /\ reg_ret = "ok"
             /\ DOMAIN PARSER_REGISTRY = DOMAIN c.parsers \cup {c.cmd}
             /\ DOMAIN NAME_REGISTRY = DOMAIN c.names \cup {c.cmd}
             /\ PARSER_REGISTRY[c.cmd] = c.parser /\ NAME_REGISTRY[c.cmd] = c.name
             /\ \A k \in DOMAIN c.parsers \ {c.cmd} : PARSER_REGISTRY[k] = c.parsers[k]
             /\ \A k \in DOMAIN c.names \ {c.cmd} : NAME_REGISTRY[k] = c.names[k]

\* a registration without override was refused for a command whose entry an
\* earlier call with override had replaced
C19_Witness ==
    /\ reg_ret = "ValueError"
    /\ reg_log[1].cmd = "AT+CFUN=1" /\ ~reg_log[1].override
    /\ PARSER_REGISTRY["AT+CFUN=1"] = "_verbatim" /\ NAME_REGISTRY["AT+CFUN=1"] = "Foo"
    /\ reg_log[1].parser = "_pass_if_ok" /\ reg_log[1].name = "Bar"

\* C20: for a command without a registered parser the verdict of parse() is
\* pass exactly when the status of the envelope is "OK".
C20_FallbackPassIffOk ==
    \A i \in 1..Len(results) :
        results[i].command \notin DOMAIN PARSER_REGISTRY
            => (results[i].passed <=> results[i].status = <<"OK">>)

\* the parse() call made returned, and this is what it was called with
Parsed == pcall # <<>> /\ pcall[1].ret = "ok"
ParserOf(i) == Get(PARSER_REGISTRY, pcall[1].report[i].cmd, "_pass_if_ok")
ReplyOf(i) == pcall[1].report[i].info.reply
RulesOf(i) == RulesFor(pcall[1].limits, results[i].name)
DefaultOf(i) == CallParser(ParserOf(i), ReplyOf(i), pcall[1].report[i].info.status).ok

\* C21: without rules, a result of a verbatim parser passes exactly when the
\* status is "OK" and the reply the parser keeps is not empty.
C21_VerbatimPassIffOkNonEmpty ==
    Parsed =>
        \A i \in 1..Len(results) :
            ParserOf(i) \in {"_verbatim", "_verbatim_strip_prefix"} /\ RulesOf(i) = <<>>
                => (results[i].passed <=>
                       results[i].status = <<"OK">> /\ results[i].parsed.value.s # "")

\* the rules of the call made that fail when each is tried alone
FailingAlone == {i \in 1..Len(ar[1].rules) : ~RuleOk(ar[1].val, ar[1].rules[i]).passed}

\* C22: _apply_rules() returns pass exactly when every rule of the list,
\* tried alone on the value, holds.
C22_PassIffEveryRuleHolds ==
    ar # <<>> => (ar[1].ret.ok <=> FailingAlone = {})

\* two rules, the first holds on the value and the second does not
C22_Witness ==
    /\ ar # <<>> /\ Len(ar[1].rules) = 2
    /\ FailingAlone = {2}
    /\ ~ar[1].ret.ok

\* C23: the reasons hold one reason for every rule that fails on the value
\* and none for a rule that holds.
C23_EveryFailingRuleExplained ==
    ar # <<>> =>
        /\ Len(ar[1].ret.reasons) = Cardinality(FailingAlone)
        /\ \A i \in FailingAlone :
              \E j \in 1..Len(ar[1].ret.reasons) :
                  <<ar[1].ret.reasons[j]>> = RuleOk(ar[1].val, ar[1].rules[i]).reasons

C25_RangeScenario ==
    Parsed =>
        \A i \in 1..Len(results) :
            RulesOf(i) = <<RangeRule>> /\ results[i].status = <<"OK">>
                => /\ ReplyOf(i) = "5046" => results[i].passed
                   /\ ReplyOf(i) = "4000"
                         => /\ ~results[i].passed
                            /\ results[i].reasons = <<"value 4000 < [4900-5100]">>

\* C26: a result whose name has no rules has the verdict of its parser and no
\* reasons.
C26_NoRulesDefaultVerdict ==
    Parsed =>
        \A i \in 1..Len(results) :
            RulesOf(i) = <<>>
                => results[i].passed = DefaultOf(i) /\ results[i].reasons = <<>>

\* limits that hold an empty rule list for the name of the result, and a
\* voltage in the range of the parser
C26_Witness ==
    /\ Parsed /\ Len(results) = 1
    /\ results[1].name \in DOMAIN pcall[1].limits
    /\ RulesOf(1) = <<>>
    /\ ReplyOf(1) = "%XVBAT: 5046" /\ results[1].passed

\* C27: parse() returns, with one result for each entry of the report, in the
\* order of the report.
C27_ParseNeverRaises ==
    pcall # <<>> =>
        /\ pcall[1].ret = "ok"
        /\ Len(results) = Len(pcall[1].report)
        /\ \A i \in 1..Len(results) : results[i].command = pcall[1].report[i].cmd

\* the text a reply has to hold for the pattern of a parser to match
PatternText(parser) ==
    CASE parser = "_parse_cereg" -> "+CEREG: "
      [] parser = "_parse_xvbat" -> "%XVBAT:"
      [] parser = "_parse_xtemp" -> "%XTEMP:"
      [] parser = "_parse_xsystemmode" -> "%XSYSTEMMODE: "
      [] parser = "_parse_xmonitor" -> XmonPrefix
\* the reply is without the text of the pattern (at its start, for the
\* network monitor)
NoMatch(parser, reply) ==
    IF parser = "_parse_xmonitor" THEN ~LitAt(reply, 1, XmonPrefix)
    ELSE \A p \in 1..Len(reply) : ~LitAt(reply, p, PatternText(parser))

\* C28: a reply the pattern of a built-in parser does not match is described
\* as "unparseable" and its result does not pass, whatever the rules.
C28_UnparseableFails ==
    Parsed =>
        \A i \in 1..Len(results) :
            \/ results[i].parsed.description = "unparseable" /\ ~results[i].passed
            \/ ParserOf(i) \notin {"_parse_cereg", "_parse_xvbat", "_parse_xtemp",
                                   "_parse_xsystemmode", "_parse_xmonitor"}
            \/ ~NoMatch(ParserOf(i), ReplyOf(i))

\* the reply "5046" to AT%XVBAT with the rule {equals: "5046"}: the rule holds
\* and the result fails
C28_Witness ==
    /\ Parsed /\ Len(results) = 1
    /\ results[1].command = "AT%XVBAT" /\ ReplyOf(1) = "5046"
    /\ RulesOf(1) = <<RuleChoices[4]>>
    /\ results[1].reasons = <<>>
    /\ results[1].parsed.description = "unparseable" /\ ~results[1].passed

\* C29: the session a caller passed to the terminal is never closed.
C29_ExternalSessionNotClosed ==
    ~own_session => closes = 0 /\ sess_state = "open" /\ session # None

\* a terminal on a session of the caller that was started, stopped and started
\* again
C29_Witness ==
    /\ ~own_session /\ spc = "idle"
    /\ \E i \in 1..Len(stops) : stops[i]
    /\ xr # <<>>
    /\ closes = 0

\* the number of results the first n calls exported to path and left in the
\* file: a call with mode "w" starts the file anew
RECURSIVE ExportedTo(_, _)
ExportedTo(path, n) ==
    IF n = 0 THEN 0
    ELSE IF exports[n].path # path THEN ExportedTo(path, n - 1)
    ELSE Len(exports[n].results)
         + (IF exports[n].mode = "w" THEN 0 ELSE ExportedTo(path, n - 1))

\* C30: a file export_csv() wrote has the header as its first row and nowhere
\* else, and after it one row for every result exported to its path.
C30_HeaderOnce ==
    \A path \in DOMAIN files :
        /\ files[path] # <<>>
        /\ files[path][1] = Header
        /\ \A i \in 2..Len(files[path]) : files[path][i] # Header
        /\ Len(files[path]) = 1 + ExportedTo(path, Len(exports))
\* C31: for every registration code 0..5 in the first field of a %XMONITOR
\* reply the record's reg_status is that code and the description starts with
\* the text of the table for that code; the default verdict is pass exactly
\* when the code is 1 or 5 and the RSRP, when the reply carries one, is above
\* -110 dBm.
C31_XmonitorRegStatus ==
    Parsed =>
        \A f \in XmonFields :
            XmonReply(f) = ReplyOf(1) =>
                LET code == IntOf(f.reg)
                    has_rsrp == ~f.short /\ f.rsrp # "" IN
                /\ results[1].parsed.value.d["reg_status"] = VInt(code)
                /\ LitAt(results[1].parsed.description, 1, RegText(code))
                /\ results[1].passed <=>
                       code \in {1, 5} /\ (has_rsrp => IntOf(f.rsrp) - 140 > -110)

\* a step of a terminal that has not been started writes nothing on a channel,
\* returns no query, and a call that ends in it ends with the error of line 79
NotStartedStep ==
    /\ wlog' = wlog /\ downlog' = downlog /\ upchan' = upchan
    /\ qlog' = qlog /\ sendlog' = sendlog
    /\ mpc = "q_send" => mpc' = "idle" /\ last_ret' = "RuntimeError"
    /\ mpc' \in {"idle", "q_drain", "q_send", "b_iter"}
    /\ last_ret' # last_ret => last_ret' \in {"RuntimeError", "batch"}
\* batch_at_query() returns
BatchReturns == mpc = "b_iter" /\ mpc' = "idle"

\* C32 as stated: on a terminal that has not been started send(), query(),
\* at_query() and batch_at_query() all fail with "Terminal not started", no
\* byte is written, and batch_at_query() returns nothing.
C32_NotStartedFails ==
    [][down = None => NotStartedStep /\ ~BatchReturns]_vars

\* C32, amended: the same, for a batch_at_query() that is given at least one
\* command; with no command it returns the empty mapping without an error.
C32_NotStartedFails_Amended ==
    [][down = None =>
          /\ NotStartedStep
          /\ BatchReturns => commands = <<>> /\ result = EmptyResult /\ last_ret' = "batch"]_vars

\* a batch of two commands with a progress callback has failed at its first
\* command, after the progress call, on a terminal that has not been started
C32_Witness ==
    /\ down = None /\ mpc = "idle" /\ last_ret = "RuntimeError"
    /\ Len(commands) = 2 /\ bi = 1 /\ q_line = commands[1]
    /\ events = << <<"progress", 1>> >>
    /\ result = EmptyResult /\ wlog = <<>>

\* C33: once the stop flag is set the reader thread, if it was started,
\* eventually exits; after it has exited no line is put on the queue or passed
\* to the observer, whatever the device still writes.
C33_ReaderExits ==
    /\ (stop_evt /\ rpc # "off") ~> (rpc = "done")
    /\ [][rpc = "done" => rpc' = "done" /\ putLog' = putLog /\ obsLog' = obsLog /\ rx_q' = rx_q]_vars

\* the reader has exited after publishing a line, and bytes of a further line
\* are waiting in the channel
C33_Witness ==
    /\ stop_evt /\ rpc = "done"
    /\ Len(obsLog) >= 1
    /\ HasNewline(upchan)

\* the reader thread is at the top of its read loop or of its split loop
BetweenTurns == rpc \in {"check", "read", "split"}
\* the bytes of the published lines, each followed by a newline
RECURSIVE PublishedBytes(_)
PublishedBytes(n) ==
    IF n = 0 THEN <<>> ELSE PublishedBytes(n - 1) \o Encode(putLog[n].text) \o <<"\n">>
\* the buffer holds no newline between two reads, and only lines that ended
\* with a newline have been published
NoFragmentPublished ==
    /\ rpc \in {"check", "read"} => ~HasNewline(buf)
    /\ Len(putLog) <= Cardinality(NewlineAt(rx_bytes))
    /\ rpc \in {"check", "read"} => Len(putLog) = Cardinality(NewlineAt(rx_bytes))

\* C34 as stated: while the reader runs, the bytes read so far are the
\* published lines, each followed by a newline, followed by the buffer; the
\* buffer holds no newline between reads and no fragment is published.
C34_ByteConservation ==
    BetweenTurns =>
        /\ rx_bytes = PublishedBytes(Len(putLog)) \o buf
        /\ NoFragmentPublished

\* C34, amended: the k-th published line is the decoding, with invalid bytes
\* replaced, of the bytes read between the (k-1)-th and the k-th newline, and
\* the buffer holds the bytes read after the newline of the last published
\* line; the buffer holds no newline between reads and no fragment is
\* published.
C34_ByteConservation_Amended ==
    BetweenTurns =>
        /\ \A k \in 1..Len(putLog) :
              putLog[k].text = Decode(SubSeq(rx_bytes, KthNewline(rx_bytes, k - 1) + 1,
                                             KthNewline(rx_bytes, k) - 1))
        /\ buf = SubSeq(rx_bytes, KthNewline(rx_bytes, Len(putLog)) + 1, Len(rx_bytes))
        /\ NoFragmentPublished

\* a line with an invalid byte has been published and the buffer holds the
\* fragment of the next line
C34_Witness ==
    /\ rpc = "check"
    /\ \E k \in 1..Len(putLog) : \E j \in 1..Len(putLog[k].text) :
           putLog[k].text[j] = "U+FFFD"
    /\ buf # <<>>

\* the lines of a reply: the texts between the newlines that join them
ReplyLines(reply) == StreamLines(reply \o <<"\n">>)
\* an envelope with a status of the vocabulary, or None, and without a status
\* token among the lines of its reply
EnvelopeOk(env) ==
    /\ env.status \in AT_TERMINATORS \cup {NoStatus}
    /\ \/ env.reply = <<>>
       \/ LET ls == ReplyLines(env.reply)
          IN  \A k \in 1..Len(ls) : Strip(ls[k]) \notin AT_TERMINATORS

\* C35: every envelope at_query() returns has a status of "OK", "ERROR" or
\* None, and no line of its reply is a status token.
C35_StatusNeverInReply ==
    /\ EnvelopeOk(last_env)
    /\ \A c \in DOMAIN result : EnvelopeOk(result[c])

\* at_query() has returned a payload line and the status "ERROR"
C35_Witness ==
    /\ last_ret = "at" /\ mpc = "idle"
    /\ last_env.status = <<"ERROR">>
    /\ last_env.reply = <<"5046">>

\* the verdict of the declared rules on the value of result i
RuleVerdictOf(i) == _apply_rules(results[i].parsed.value, RulesOf(i))

\* C36: a result with declared rules passes exactly when its rules hold and
\* the default verdict of its parser is pass; when the rules hold and the
\* default verdict is fail it does not pass and has no reasons.
C36_RulesAndDefault ==
    Parsed =>
        \A i \in 1..Len(results) :
            \/ RulesOf(i) = <<>>
            \/ LET held == RuleVerdictOf(i).ok
                   default_ok == DefaultOf(i) IN
               /\ results[i].passed = (held /\ default_ok)
               /\ held /\ ~default_ok
                     => ~results[i].passed /\ results[i].reasons = <<>>

\* the manufacturer reply "5046" with the rule {equals: "5046"} and the status
\* "ERROR": the parser keeps the reply, the rule holds, the default is fail
C36_Witness ==
    /\ Parsed /\ Len(results) = 1
    /\ results[1].command = "AT+CGMI" /\ results[1].status = <<"ERROR">>
    /\ RulesOf(1) = <<RuleChoices[4]>>
    /\ results[1].parsed.value = VStr("5046")
    /\ RuleVerdictOf(1).ok /\ ~DefaultOf(1)
    /\ ~results[1].passed /\ results[1].reasons = <<>>

\* the rules the limits of the call hold for result i: those under the display
\* name of a registered command, those under the identifier of a command
\* without a registered name
SelectedRules(i) ==
    LET cmd == results[i].command
        limits == pcall[1].limits
        key == IF cmd \in DOMAIN NAME_REGISTRY THEN NAME_REGISTRY[cmd] ELSE cmd IN
    IF key \in DOMAIN limits THEN limits[key].rules ELSE <<>>

\* C37: the rules of a result are those the limits hold under the registered
\* display name of its command, or under the command identifier when the
\* command has no registered name; rules keyed by the identifier of a command
\* registered under another name leave its result with the default verdict.
C37_RulesByDisplayName ==
    Parsed =>
        \A i \in 1..Len(results) :
            LET cmd == results[i].command
                rules == SelectedRules(i)
                checked == _apply_rules(results[i].parsed.value, rules) IN
            /\ results[i].name = Get(NAME_REGISTRY, cmd, cmd)
            /\ rules # <<>>
                  => /\ results[i].passed = (checked.ok /\ DefaultOf(i))
                     /\ results[i].reasons = checked.reasons
            /\ rules = <<>>
                  => results[i].passed = DefaultOf(i) /\ results[i].reasons = <<>>
            /\ (/\ cmd \in DOMAIN NAME_REGISTRY /\ NAME_REGISTRY[cmd] # cmd
                /\ NAME_REGISTRY[cmd] \notin DOMAIN pcall[1].limits)
                  => results[i].passed = DefaultOf(i) /\ results[i].reasons = <<>>

\* "AT+FOO" registered as "Foo", limits that hold {equals: "OK"} under
\* "AT+FOO" only, and an empty reply with the status "OK": the result passes
C37_Witness ==
    /\ Parsed /\ Len(results) = 1
    /\ results[1].command = "AT+FOO" /\ results[1].name = "Foo"
    /\ DOMAIN pcall[1].limits = {"AT+FOO"}
    /\ ~_apply_rules(results[1].parsed.value, pcall[1].limits["AT+FOO"].rules).ok
    /\ results[1].passed /\ results[1].reasons = <<>>

\* the input of the batch holds a command identifier twice
HasDuplicate == \E i, j \in 1..Len(commands) : i < j /\ commands[i] = commands[j]
\* the envelope of the i-th exchange of the batch, from the lines its query
\* collected
ExchangeEnvelope(i) ==
    LET texts == Texts(qlog[i].lines) IN
    [reply |-> Join(StripAll(Without(texts, FirstStatus(texts)))), status |-> StatusOf(texts)]
\* the number of times event e happened
Times(e) == Cardinality({k \in 1..Len(events) : events[k] = e})

\* C38: a batch whose input holds an identifier more than once sends and
\* queries every occurrence, in input order, each with its own progress call
\* and dwell, and maps the identifier to the envelope of its last occurrence.
C38_DuplicateCommands ==
    (BatchReturned /\ HasDuplicate) =>
        /\ Len(downlog) = Len(commands) /\ Len(qlog) = Len(commands)
        /\ \A i \in 1..Len(commands) :
              /\ downlog[i].cmd = commands[i] /\ qlog[i].sent = i
              /\ Times(<<"send", i>>) = 1 /\ Times(<<"dwell", i>>) = 1
              /\ Times(<<"progress", i>>) = IF has_progress THEN 1 ELSE 0
        /\ \A i, j \in 1..Len(events) :
              (i < j /\ events[i][1] = events[j][1]) => events[i][2] < events[j][2]
        /\ \A c \in DOMAIN result :
              \E i \in 1..Len(commands) :
                 /\ commands[i] = c /\ \A j \in (i + 1)..Len(commands) : commands[j] # c
                 /\ result[c] = ExchangeEnvelope(i)

\* the batch ("AT", "AT") with a progress callback: the first exchange ended
\* in ERROR, the second timed out, and the mapping holds the second envelope
C38_Witness ==
    /\ BatchReturned /\ has_progress
    /\ commands = <<"AT", "AT">>
    /\ ExchangeEnvelope(1).status = <<"ERROR">>
    /\ DOMAIN result = {"AT"}
    /\ result["AT"].status = NoStatus
    /\ Times(<<"progress", 2>>) = 1 /\ Times(<<"dwell", 2>>) = 1

\* no later reader thread has read or published anything
LaterReadersSilent ==
    \A k \in 1..Len(xr) : xr[k].pc \in {"check", "done"} /\ xr[k].buf = <<>>
\* every query made after the restart returned the empty list
LaterQueriesEmpty == \A i \in 1..Len(qlog) : qlog[i].lines = <<>>

\* C39: the stop flag, once set, is never cleared; a reader thread created by
\* a start() after the flag was set exits without publishing a line, and
\* every query made after that start() returns the empty list.
C39_DeadAfterStop ==
    /\ [][stop_evt => stop_evt']_vars
    /\ [](LaterReadersSilent /\ LaterQueriesEmpty)

====
